---------------------------- MODULE Spec2Model ----------------------------
(***************************************************************************)
(* A model of the nature-pixel ecosystem simulator: the shared world (map, *)
(* version id, change notifier) behind its read/write lock, the paint and  *)
(* snapshot handlers of the web edge, and the tickers that plan under a    *)
(* read guard and commit under a write guard.                              *)
(***************************************************************************)
EXTENDS Integers, Sequences, FiniteSets, TLC

VARIABLES
    config,          \* Config: the values loaded at start-up (immutable)
    cells,           \* Map.cells: point -> Cell
    version_id,      \* Map.version_id: the wall clock reading of the last notify_update
    wall,            \* SystemTime::now(), in clock units since the epoch
    now,             \* Instant::now(), the monotonic clock
    rlock,           \* tasks holding a read guard of the world lock
    wlock,           \* the task holding the write guard, or "none"
    pc,              \* each task's position in its code
    tnow,            \* per ticker: the `now` it read last
    changes,         \* per ticker: the planned changes not yet applied
    changed_map,     \* per ticker: apply_changes' local flag
    request,         \* per reader: the last_version_id of its request
    response,        \* per reader: the last response it returned
    notified,        \* readers whose Notified future has been woken
    paint_request,   \* the last paint request handled
    paint_status,    \* the HTTP status of the last paint request
    paints,          \* number of paint requests handled so far
    notifies,        \* parity of the number of calls of notify_update so far
    max_version,     \* the largest version_id the world has had
    atmosphere_water, \* WaterCycleSystem.atmosphere_water
    committed        \* what the world showed when a write guard was last dropped

vars == <<config, cells, version_id, wall, now, rlock, wlock, pc, tnow, changes,
          changed_map, request, response, notified,
          paint_request, paint_status, paints, notifies, max_version,
          atmosphere_water, committed>>

---------------------------------------------------------------------------
(* Bounds of the model *)

MaxPaints == 1
MaxTime == 2
MaxWall == 3

---------------------------------------------------------------------------
(* Option and Point *)

None == [kind |-> "None"]

NoResponse == None

Pt(x, y) == [x |-> x, y |-> y]

PointX == Pt(1, 0)

DIRECTIONS == <<Pt(1, 0), Pt(0, 1), Pt(-1, 0), Pt(0, -1)>>

Abs(n) == IF n < 0 THEN -n ELSE n

Max2(a, b) == IF a > b THEN a ELSE b

Min2(a, b) == IF a < b THEN a ELSE b

is_valid(p, map_size) ==
    /\ p.x >= 0 /\ p.x < map_size
    /\ p.y >= 0 /\ p.y < map_size

distance(a, b) == Abs(a.x - b.x) + Abs(a.y - b.y)

PAdd(a, b) == Pt(a.x + b.x, a.y + b.y)

PSub(a, b) == Pt(a.x - b.x, a.y - b.y)

PMul(a, k) == Pt(a.x * k, a.y * k)

turn_right(d) == Pt(-d.y, d.x)

turn_left(d) == Pt(d.y, -d.x)

turn_over(d) == Pt(-d.x, -d.y)

GridPoints(map_size) == {Pt(x, y) : x \in 0..(map_size - 1), y \in 0..(map_size - 1)}

size == config.map_size

---------------------------------------------------------------------------
(* Sequences and the iterators of point.rs *)

RECURSIVE Flatten(_)
Flatten(ss) == IF ss = <<>> THEN <<>> ELSE Head(ss) \o Flatten(Tail(ss))

SeqToSet(s) == {s[i] : i \in 1..Len(s)}

(* Iterator::find: the first element satisfying the test, or None *)
Find(s, Test(_)) ==
    LET hits == {i \in 1..Len(s) : Test(s[i])}
    IN  IF hits = {} THEN None
        ELSE s[CHOOSE i \in hits : \A j \in hits : i <= j]

(* start..end as a sequence (empty when end <= start) *)
RangeSeq(start, end) ==
    IF end > start THEN [i \in 1..(end - start) |-> start + i - 1] ELSE <<>>

valid_range(center, radius, map_size) ==
    RangeSeq(Max2(center - radius, 0), Min2(center + radius + 1, map_size))

(* CircleIter: columns by ascending x, each by ascending y *)
circle(center, radius, map_size) ==
    LET xs == valid_range(center.x, radius, map_size)
        column(x) ==
            LET ys == valid_range(center.y, radius - Abs(center.x - x), map_size)
            IN  [j \in 1..Len(ys) |-> Pt(x, ys[j])]
    IN  Flatten([i \in 1..Len(xs) |-> column(xs[i])])

(* CircumferenceIter: per x, the point above and then the point below *)
circumference(center, radius, map_size) ==
    LET xs == valid_range(center.x, radius, map_size)
        column(x) ==
            LET delta_y == radius - Abs(center.x - x)
                low == center.y - delta_y
                high == center.y + delta_y
            IN  (IF high >= 0 /\ high < map_size THEN <<Pt(x, high)>> ELSE <<>>)
                \o (IF delta_y > 0 /\ low >= 0 /\ low < map_size
                    THEN <<Pt(x, low)>> ELSE <<>>)
    IN  Flatten([i \in 1..Len(xs) |-> column(xs[i])])

surroundings(p) ==
    <<Pt(p.x - 1, p.y), Pt(p.x, p.y - 1), Pt(p.x, p.y), Pt(p.x, p.y + 1),
      Pt(p.x + 1, p.y)>>

(* indexed_iter of the cell array: row by row (i = y), each by ascending j = x *)
indexed_iter(map_size) ==
    Flatten([i \in 1..map_size |-> [j \in 1..map_size |-> Pt(j - 1, i - 1)]])

(* min_set_by_key / max_set_by_key *)
min_set_by_key(S, Key(_)) == {e \in S : \A o \in S : Key(e) <= Key(o)}

max_set_by_key(S, Key(_)) == {e \in S : \A o \in S : Key(e) >= Key(o)}

---------------------------------------------------------------------------
(* Cells and colors *)

EmptyAnimal == [kind |-> "Empty"]

DeadAnimal == [kind |-> "Dead"]

InsectDefault ==
    [kind |-> "Insect", state |-> "SearchFood", direction |-> PointX,
     destination |-> None]

SimpleAnimalDefault(t) ==
    [kind |-> "Amphibian", state |-> "SearchFood", direction |-> PointX,
     destination |-> None, last_feeding |-> t]

SnakeNew(species) == [kind |-> "Snake", species |-> species, segment |-> None]

CellEmpty(height) ==
    [animal |-> EmptyAnimal, water |-> "Empty", grass |-> "Empty", height |-> height]

ALL_COLORS ==
    <<"Empty", "Ant", "Frog", "Snake1", "Snake2", "Snake3", "DryGrass",
      "LowGrass", "HighGrass", "ShallowWater", "DeepWater", "DeadMatter">>

AVAILABLE_COLORS ==
    {"Empty", "Ant", "Frog", "Snake1", "Snake2", "Snake3", "LowGrass", "ShallowWater"}

as_index(c) == (CHOOSE i \in 1..Len(ALL_COLORS) : ALL_COLORS[i] = c) - 1

(* the result of try_from_index for an index that names no color *)
InvalidColor == "Invalid"

try_from_index(i) ==
    IF i >= 0 /\ i < Len(ALL_COLORS) THEN ALL_COLORS[i + 1] ELSE InvalidColor

SnakeColor(species) ==
    CASE species = "A" -> "Snake1"
      [] species = "B" -> "Snake2"
      [] species = "C" -> "Snake3"

(* a mutant of color: the water layer is looked at before the animal layer *)
color_water_first(cell) ==
    CASE cell.water = "Shallow" -> "ShallowWater"
      [] cell.water = "Deep" -> "DeepWater"
      [] cell.water = "Empty" ->
            CASE cell.animal.kind = "Insect" -> "Ant"
              [] cell.animal.kind = "Amphibian" -> "Frog"
              [] cell.animal.kind = "Snake" -> SnakeColor(cell.animal.species)
              [] cell.animal.kind = "Dead" -> "DeadMatter"
              [] cell.animal.kind = "Empty" ->
                    CASE cell.grass = "Dry" -> "DryGrass"
                      [] cell.grass = "Low" -> "LowGrass"
                      [] cell.grass = "High" -> "HighGrass"
                      [] cell.grass = "Empty" -> "Empty"

(* color: the palette entry a cell is shown as *)
color(cell) ==
    CASE cell.animal.kind = "Insect" -> "Ant"
      [] cell.animal.kind = "Amphibian" -> "Frog"
      [] cell.animal.kind = "Snake" -> SnakeColor(cell.animal.species)
      [] cell.animal.kind = "Dead" -> "DeadMatter"
      [] cell.animal.kind = "Empty" ->
            CASE cell.water = "Shallow" -> "ShallowWater"
              [] cell.water = "Deep" -> "DeepWater"
              [] cell.water = "Empty" ->
                    CASE cell.grass = "Dry" -> "DryGrass"
                      [] cell.grass = "Low" -> "LowGrass"
                      [] cell.grass = "High" -> "HighGrass"
                      [] cell.grass = "Empty" -> "Empty"

(* a mutant of with_color: the water and the grass colors set the other layer *)
with_color_swapped(cell, c, t) ==
    CASE c = "Empty" ->
            [cell EXCEPT !.animal = EmptyAnimal, !.water = "Empty", !.grass = "Empty"]
      [] c = "Ant" -> [cell EXCEPT !.animal = InsectDefault]
      [] c = "Frog" -> [cell EXCEPT !.animal = SimpleAnimalDefault(t)]
      [] c = "Snake1" -> [cell EXCEPT !.animal = SnakeNew("A")]
      [] c = "Snake2" -> [cell EXCEPT !.animal = SnakeNew("B")]
      [] c = "Snake3" -> [cell EXCEPT !.animal = SnakeNew("C")]
      [] c = "ShallowWater" -> [cell EXCEPT !.grass = "Low"]
      [] c = "LowGrass" -> [cell EXCEPT !.water = "Shallow"]
      [] OTHER -> None

(* a mutant of with_color: Empty clears the water and the grass, not the animal *)
with_color_animal_kept(cell, c, t) ==
    CASE c = "Empty" -> [cell EXCEPT !.water = "Empty", !.grass = "Empty"]
      [] c = "Ant" -> [cell EXCEPT !.animal = InsectDefault]
      [] c = "Frog" -> [cell EXCEPT !.animal = SimpleAnimalDefault(t)]
      [] c = "Snake1" -> [cell EXCEPT !.animal = SnakeNew("A")]
      [] c = "Snake2" -> [cell EXCEPT !.animal = SnakeNew("B")]
      [] c = "Snake3" -> [cell EXCEPT !.animal = SnakeNew("C")]
      [] c = "ShallowWater" -> [cell EXCEPT !.water = "Shallow"]
      [] c = "LowGrass" -> [cell EXCEPT !.grass = "Low"]
      [] OTHER -> None

(* a mutant of with_color: Empty puts a new empty cell of height 0 in place *)
with_color_new_cell(cell, c, t) ==
    CASE c = "Empty" -> CellEmpty(0)
      [] c = "Ant" -> [cell EXCEPT !.animal = InsectDefault]
      [] c = "Frog" -> [cell EXCEPT !.animal = SimpleAnimalDefault(t)]
      [] c = "Snake1" -> [cell EXCEPT !.animal = SnakeNew("A")]
      [] c = "Snake2" -> [cell EXCEPT !.animal = SnakeNew("B")]
      [] c = "Snake3" -> [cell EXCEPT !.animal = SnakeNew("C")]
      [] c = "ShallowWater" -> [cell EXCEPT !.water = "Shallow"]
      [] c = "LowGrass" -> [cell EXCEPT !.grass = "Low"]
      [] OTHER -> None

(* with_color: the cell after painting, or None when the color cannot be set *)
with_color(cell, c, t) ==
    CASE c = "Empty" ->
            [cell EXCEPT !.animal = EmptyAnimal, !.water = "Empty", !.grass = "Empty"]
      [] c = "Ant" -> [cell EXCEPT !.animal = InsectDefault]
      [] c = "Frog" -> [cell EXCEPT !.animal = SimpleAnimalDefault(t)]
      [] c = "Snake1" -> [cell EXCEPT !.animal = SnakeNew("A")]
      [] c = "Snake2" -> [cell EXCEPT !.animal = SnakeNew("B")]
      [] c = "Snake3" -> [cell EXCEPT !.animal = SnakeNew("C")]
      [] c = "ShallowWater" -> [cell EXCEPT !.water = "Shallow"]
      [] c = "LowGrass" -> [cell EXCEPT !.grass = "Low"]
      [] OTHER -> None

(* prepare_response: the version and every cell's color index *)
prepare_response ==
    [version_id |-> version_id,
     cell_color_indexes |-> [p \in DOMAIN cells |-> as_index(color(cells[p]))]]

---------------------------------------------------------------------------
(* Tasks *)

Tickers == {"insect", "amphibian", "snake", "water_cycle", "water_flow"}

Readers == {"reader"}

Tasks == Tickers \cup Readers

---------------------------------------------------------------------------
(* The world lock: MonitoredRwLock around std::sync::RwLock *)

(* a mutant of CanRead: a read guard is handed out while a writer is inside *)
CanRead_unguarded == TRUE

(* read() returns once no write guard is out *)
CanRead == wlock = "none"

(* write() returns once no guard at all is out. A panic under the write guard *)
(* poisons the lock: the unwrap() of every later read() and write() panics,   *)
(* so no guard is handed out any more.                                       *)
CanWrite == wlock = "none" /\ rlock = {}

(* what observers can see of the world: each cell's color and the version *)
Shown == prepare_response

---------------------------------------------------------------------------
(* Map::notify_update and Map::now *)

(* Map::now: the reading of the wall clock. The code keeps its decimal     *)
(* string, which readers only compare for equality; equal strings are     *)
(* equal readings, so the model keeps the number.                         *)
MapNow == wall

(* readers whose Notified future exists and has not completed: the waiters *)
(* notify_waiters wakes                                                    *)
Waiting == {r \in Readers : pc[r] = "waiting"}

(* version_id = now(), then notify_waiters(). Reading the clock takes time: *)
(* the next reading is later, unless the clock is set back in between.      *)
notify_update ==
    /\ wall < MaxWall
    /\ version_id' = MapNow
    /\ wall' = wall + 1
    /\ max_version' = Max2(max_version, version_id')
    /\ notified' = notified \cup Waiting
    /\ notifies' = 1 - notifies

no_notify == UNCHANGED <<version_id, wall, max_version, notified, notifies>>

---------------------------------------------------------------------------
(* POST /api/cell: set_cell_color *)

(* the status of a request whose color index is unknown: `?` turns the error *)
(* into a WebError through From, whose status is INTERNAL_SERVER_ERROR       *)
UnknownIndexStatus == 500

(* the status set by map_err(WebError::bad_request) *)
BadRequestStatus == 400

OkStatus == 200

(* a mutant of set_cell_color_request: the whole column x_index is painted *)
set_cell_color_request_column(x_index, y_index, color_index) ==
    LET point == Pt(x_index, y_index)
        c == try_from_index(color_index)
        painted == IF c # InvalidColor /\ point \in DOMAIN cells
                   THEN with_color(cells[point], c, now)
                   ELSE None
    IN  /\ CanWrite
        /\ paints' = paints + 1
        /\ paint_request' = [point |-> point, color_index |-> color_index]
        /\ IF c = InvalidColor
           THEN /\ paint_status' = UnknownIndexStatus
                /\ UNCHANGED cells
                /\ no_notify
           ELSE IF painted = None
           THEN /\ paint_status' = BadRequestStatus
                /\ UNCHANGED cells
                /\ no_notify
           ELSE /\ paint_status' = OkStatus
                /\ cells' = [q \in DOMAIN cells |->
                                IF q.x = x_index THEN with_color(cells[q], c, now)
                                ELSE cells[q]]
                /\ notify_update
        /\ committed' = Shown'
        /\ UNCHANGED <<config, now, rlock, wlock, pc, tnow, changes, changed_map,
                       request, response, atmosphere_water>>

(* the handler, from the write guard to the response *)
set_cell_color_request(x_index, y_index, color_index) ==
    LET point == Pt(x_index, y_index)
        c == try_from_index(color_index)
        painted == IF c # InvalidColor /\ point \in DOMAIN cells
                   THEN with_color(cells[point], c, now)
                   ELSE None
    IN  /\ CanWrite
        /\ paints' = paints + 1
        /\ paint_request' = [point |-> point, color_index |-> color_index]
        /\ IF c = InvalidColor
           THEN /\ paint_status' = UnknownIndexStatus
                /\ UNCHANGED cells
                /\ no_notify
           ELSE IF painted = None
           THEN /\ paint_status' = BadRequestStatus
                /\ UNCHANGED cells
                /\ no_notify
           ELSE /\ paint_status' = OkStatus
                /\ cells' = [cells EXCEPT ![point] = painted]
                /\ notify_update
        /\ committed' = Shown'
        /\ UNCHANGED <<config, now, rlock, wlock, pc, tnow, changes, changed_map,
                       request, response, atmosphere_water>>

(* one of the MaxPaints requests a behaviour holds *)
set_cell_color(x_index, y_index, color_index) ==
    /\ paints < MaxPaints
    /\ set_cell_color_request(x_index, y_index, color_index)

---------------------------------------------------------------------------
(* SimpleAnimalKind for Amphibian (amphibian.rs) *)

AmphibianGet(cell) == cell.animal.kind = "Amphibian"

AmphibianIsFoodGoal(cell) == cell.animal.kind = "Insect"

AmphibianIsMatingGroundGoal(cell) == cell.water # "Empty"

WalkCandidateNew(point, direction, scale) ==
    [target |-> PAdd(point, PMul(direction, scale)), new_direction |-> direction]

AmphibianWalkCandidates(point, direction) ==
    {WalkCandidateNew(point, turn_right(direction), 1),
     WalkCandidateNew(point, turn_left(direction), 1),
     WalkCandidateNew(point, direction, 1),
     WalkCandidateNew(point, direction, 2)}

(* Instant - Instant saturates at zero *)
Elapsed(t, since) == IF t > since THEN t - since ELSE 0

---------------------------------------------------------------------------
(* SimpleAnimalSystem::determine_changes (simple_animal.rs), for K = Amphibian *)

check_food_goal(p) == p \in DOMAIN cells /\ AmphibianIsFoodGoal(cells[p])

check_mating_ground_goal(p) ==
    p \in DOMAIN cells /\ AmphibianIsMatingGroundGoal(cells[p])

(* a mutant of check_partner_goal: the animal may be its own partner *)
check_partner_goal_with_self(self_point, p) ==
    /\ p \in DOMAIN cells
    /\ AmphibianGet(cells[p])
    /\ cells[p].animal.state = "SearchPartner"

check_partner_goal(self_point, p) ==
    /\ self_point # p
    /\ p \in DOMAIN cells
    /\ AmphibianGet(cells[p])
    /\ cells[p].animal.state = "SearchPartner"

check_new_born(p) == p \in DOMAIN cells /\ cells[p].animal.kind = "Empty"

determine_starvation(t, a) ==
    IF Elapsed(t, a.last_feeding) > config.amphibian_starvation_delay
    THEN {[kind |-> "Starve"]}
    ELSE {}

determine_reached_goal(point, a) ==
    CASE a.state = "SearchFood" ->
            LET target == Find(circle(point, config.amphibian_eating_radius, size),
                               check_food_goal)
            IN  IF target = None THEN {} ELSE {[kind |-> "Eat", target |-> target]}
      [] a.state = "SearchMatingGround" ->
            IF \E q \in SeqToSet(surroundings(point)) : check_mating_ground_goal(q)
            THEN {[kind |-> "SearchPartner"]}
            ELSE {}
      [] a.state = "SearchPartner" ->
            LET around == circle(point, config.amphibian_mating_radius, size)
                partner == Find(around, LAMBDA q : check_partner_goal(point, q))
            IN  IF partner = None THEN {}
                ELSE {[kind |-> "Mate", partner |-> partner, new_born |-> nb] :
                        nb \in {q \in SeqToSet(around) : check_new_born(q)}}

(* a mutant of determine_next_walk: any free candidate will do *)
determine_next_walk_any_free(point, a) ==
    IF a.destination = None \/ a.destination = point THEN {}
    ELSE LET free == {c \in AmphibianWalkCandidates(point, a.direction) :
                        c.target \in DOMAIN cells
                        /\ cells[c.target].animal.kind = "Empty"}
         IN  {[kind |-> "MoveTo", candidate |-> c] : c \in free}

determine_next_walk(point, a) ==
    IF a.destination = None \/ a.destination = point THEN {}
    ELSE LET free == {c \in AmphibianWalkCandidates(point, a.direction) :
                        c.target \in DOMAIN cells
                        /\ cells[c.target].animal.kind = "Empty"}
         IN  {[kind |-> "MoveTo", candidate |-> c] :
                c \in min_set_by_key(free,
                        LAMBDA c : distance(c.target, a.destination))}

determine_next_destination(point, a) ==
    LET search_circle == SeqToSet(circle(point, config.amphibian_destination_radius, size))
        goals ==
            CASE a.state = "SearchFood" -> {q \in search_circle : check_food_goal(q)}
              [] a.state = "SearchMatingGround" ->
                    {q \in search_circle : check_mating_ground_goal(q)}
              [] a.state = "SearchPartner" ->
                    {q \in search_circle : check_partner_goal(point, q)}
        far == SeqToSet(circumference(point, config.amphibian_destination_radius, size))
        grounds == max_set_by_key({q \in search_circle : check_mating_ground_goal(q)},
                                  LAMBDA q : distance(q, point))
    IN  IF goals # {}
        THEN {[kind |-> "SetDestination", destination |-> g] : g \in goals}
        ELSE IF a.state \in {"SearchFood", "SearchMatingGround"}
        THEN IF far = {}
             THEN {[kind |-> "Panic"]}    \* expect("must have at least one point")
             ELSE {[kind |-> "SetDestination", destination |-> d] : d \in far}
        ELSE IF grounds # {}
        THEN {[kind |-> "SetDestination", destination |-> d] : d \in grounds}
        ELSE {[kind |-> "SearchMatingGround"]}

(* a mutant of determine_change: the goal is looked at before the starvation *)
determine_change_goal_first(t, point, a) ==
    LET starve == determine_starvation(t, a)
        goal == determine_reached_goal(point, a)
        walk == determine_next_walk(point, a)
    IN  IF goal # {} THEN goal
        ELSE IF starve # {} THEN starve
        ELSE IF walk # {} THEN walk
        ELSE determine_next_destination(point, a)

(* the changes the ticker may plan for the animal at point: the first rule  *)
(* that applies, any of the random choices it can make                      *)
determine_change(t, point, a) ==
    LET starve == determine_starvation(t, a)
        goal == determine_reached_goal(point, a)
        walk == determine_next_walk(point, a)
    IN  IF starve # {} THEN starve
        ELSE IF goal # {} THEN goal
        ELSE IF walk # {} THEN walk
        ELSE determine_next_destination(point, a)

RECURSIVE determine_changes(_, _)
determine_changes(t, points) ==
    IF points = <<>> THEN {<<>>}
    ELSE LET point == Head(points)
             rest == determine_changes(t, Tail(points))
         IN  IF AmphibianGet(cells[point])
             THEN {<<[point |-> point, change |-> c]>> \o r :
                     c \in determine_change(t, point, cells[point].animal), r \in rest}
             ELSE rest

HasPanic(batch) == \E i \in 1..Len(batch) : batch[i].change.kind = "Panic"

---------------------------------------------------------------------------
(* SimpleAnimalSystem::apply_changes, one change of the batch *)

Applied(cs, changed) == [cells |-> cs, changed |-> changed, panic |-> FALSE]

Panicked(cs) == [cells |-> cs, changed |-> FALSE, panic |-> TRUE]

(* two_cells_mut / three_cells_mut panic on coinciding or out-of-bounds points *)
cells_mut_panics(cs, points) ==
    \/ \E i \in 1..Len(points) : points[i] \notin DOMAIN cs
    \/ \E i, j \in 1..Len(points) : i # j /\ points[i] = points[j]

apply_starve(cs, point, t) ==
    LET a == cs[point].animal
    IN  IF ~AmphibianGet(cs[point]) THEN Applied(cs, FALSE)
        ELSE IF a.state = "SearchFood"
        THEN Applied([cs EXCEPT ![point].animal = DeadAnimal], FALSE)
        ELSE Applied([cs EXCEPT ![point].animal.state = "SearchFood",
                                ![point].animal.last_feeding = t,
                                ![point].animal.destination = None], FALSE)

apply_search_mating_ground(cs, point) ==
    IF AmphibianGet(cs[point]) /\ cs[point].animal.state # "SearchMatingGround"
    THEN Applied([cs EXCEPT ![point].animal.state = "SearchMatingGround",
                            ![point].animal.destination = None], FALSE)
    ELSE Applied(cs, FALSE)

apply_search_partner(cs, point) ==
    IF AmphibianGet(cs[point]) /\ cs[point].animal.state = "SearchMatingGround"
    THEN Applied([cs EXCEPT ![point].animal.state = "SearchPartner",
                            ![point].animal.destination = None], FALSE)
    ELSE Applied(cs, FALSE)

apply_set_destination(cs, point, destination) ==
    IF AmphibianGet(cs[point])
    THEN Applied([cs EXCEPT ![point].animal.destination = destination], FALSE)
    ELSE Applied(cs, FALSE)

(* a mutant of the Eat arm: the food cell is not looked at again *)
apply_eat_unchecked(cs, point, target, t) ==
    IF cells_mut_panics(cs, <<point, target>>) THEN Panicked(cs)
    ELSE IF AmphibianGet(cs[point]) /\ cs[point].animal.state = "SearchFood"
    THEN Applied([cs EXCEPT ![point].animal.state = "SearchMatingGround",
                            ![point].animal.destination = None,
                            ![point].animal.last_feeding = t,
                            ![target].animal = EmptyAnimal], TRUE)
    ELSE Applied(cs, FALSE)

apply_eat(cs, point, target, t) ==
    IF cells_mut_panics(cs, <<point, target>>) THEN Panicked(cs)
    ELSE IF /\ AmphibianGet(cs[point])
            /\ AmphibianIsFoodGoal(cs[target])
            /\ cs[point].animal.state = "SearchFood"
    THEN Applied([cs EXCEPT ![point].animal.state = "SearchMatingGround",
                            ![point].animal.destination = None,
                            ![point].animal.last_feeding = t,
                            ![target].animal = EmptyAnimal], TRUE)
    ELSE Applied(cs, FALSE)

(* a mutant of the Mate arm: the states of the two partners are not looked *)
(* at again                                                               *)
apply_mate_unchecked(cs, point, partner, new_born, born_at) ==
    IF cells_mut_panics(cs, <<point, partner, new_born>>) THEN Panicked(cs)
    ELSE IF /\ AmphibianGet(cs[point])
            /\ AmphibianGet(cs[partner])
            /\ cs[new_born].animal.kind = "Empty"
    THEN Applied([cs EXCEPT ![point].animal.state = "SearchFood",
                            ![partner].animal.state = "SearchFood",
                            ![new_born].animal = SimpleAnimalDefault(born_at)], TRUE)
    ELSE Applied(cs, FALSE)

apply_mate(cs, point, partner, new_born, born_at) ==
    IF cells_mut_panics(cs, <<point, partner, new_born>>) THEN Panicked(cs)
    ELSE IF /\ AmphibianGet(cs[point])
            /\ AmphibianGet(cs[partner])
            /\ cs[new_born].animal.kind = "Empty"
            /\ cs[point].animal.state = "SearchPartner"
            /\ cs[partner].animal.state = "SearchPartner"
    THEN Applied([cs EXCEPT ![point].animal.state = "SearchFood",
                            ![partner].animal.state = "SearchFood",
                            ![new_born].animal = SimpleAnimalDefault(born_at)], TRUE)
    ELSE Applied(cs, FALSE)

apply_move_to(cs, point, candidate) ==
    IF cells_mut_panics(cs, <<point, candidate.target>>) THEN Panicked(cs)
    ELSE IF AmphibianGet(cs[point]) /\ cs[candidate.target].animal.kind = "Empty"
    THEN LET from == cs[point].animal
             moved == [from EXCEPT
                         !.destination = IF from.destination = candidate.target
                                         THEN None ELSE from.destination,
                         !.direction = candidate.new_direction]
         IN  Applied([cs EXCEPT ![point].animal = cs[candidate.target].animal,
                                ![candidate.target].animal = moved], TRUE)
    ELSE Applied(cs, FALSE)

(* the match of apply_changes: t is the `now` read before the write guard,  *)
(* born_at the clock when a newborn is built                                *)
apply_change(cs, point, change, t, born_at) ==
    CASE change.kind = "Starve" -> apply_starve(cs, point, t)
      [] change.kind = "SearchMatingGround" -> apply_search_mating_ground(cs, point)
      [] change.kind = "SearchPartner" -> apply_search_partner(cs, point)
      [] change.kind = "SetDestination" ->
            apply_set_destination(cs, point, change.destination)
      [] change.kind = "Eat" -> apply_eat(cs, point, change.target, t)
      [] change.kind = "Mate" ->
            apply_mate(cs, point, change.partner, change.new_born, born_at)
      [] change.kind = "MoveTo" -> apply_move_to(cs, point, change.candidate)

---------------------------------------------------------------------------
(* InsectSystem::determine_changes (insect.rs) *)

IsInsect(cell) == cell.animal.kind = "Insect"

Insect_check_food_goal(p) == p \in DOMAIN cells /\ cells[p].animal.kind = "Dead"

Insect_check_grass_goal(p) == p \in DOMAIN cells /\ cells[p].grass # "Empty"

Insect_check_partner_goal(self_point, p) ==
    /\ self_point # p
    /\ p \in DOMAIN cells
    /\ IsInsect(cells[p])
    /\ cells[p].animal.state = "SearchPartner"

Insect_determine_reached_goal(point, insect) ==
    CASE insect.state = "SearchFood" ->
            LET target == Find(surroundings(point), Insect_check_food_goal)
            IN  IF target = None THEN {} ELSE {[kind |-> "Eat", target |-> target]}
      [] insect.state = "SearchGrass" ->
            IF \E q \in SeqToSet(surroundings(point)) : Insect_check_grass_goal(q)
            THEN {[kind |-> "SearchPartner"]}
            ELSE {}
      [] insect.state = "SearchPartner" ->
            LET around == circle(point, config.insect_mating_radius, size)
                partner == Find(around, LAMBDA q : Insect_check_partner_goal(point, q))
            IN  IF partner = None THEN {}
                ELSE {[kind |-> "Mate", partner |-> partner, new_born |-> nb] :
                        nb \in {q \in SeqToSet(around) : check_new_born(q)}}

Insect_determine_next_walk(point, insect) ==
    IF insect.destination = None \/ insect.destination = point THEN {}
    ELSE LET candidates == {PAdd(point, turn_right(insect.direction)),
                            PAdd(point, turn_left(insect.direction)),
                            PAdd(point, turn_over(insect.direction))}
             free == {c \in candidates :
                        c \in DOMAIN cells /\ cells[c].animal.kind = "Empty"}
         IN  {[kind |-> "MoveTo", target |-> c] :
                c \in min_set_by_key(free, LAMBDA c : distance(c, insect.destination))}

Insect_determine_next_destination(point, insect) ==
    LET search_circle == SeqToSet(circle(point, config.insect_destination_radius, size))
        goals ==
            CASE insect.state = "SearchFood" ->
                    {q \in search_circle : Insect_check_food_goal(q)}
              [] insect.state = "SearchGrass" ->
                    {q \in search_circle : Insect_check_grass_goal(q)}
              [] insect.state = "SearchPartner" ->
                    {q \in search_circle : Insect_check_partner_goal(point, q)}
        far == SeqToSet(circumference(point, config.insect_destination_radius, size))
    IN  IF goals # {}
        THEN {[kind |-> "SetDestination", destination |-> g] : g \in goals}
        ELSE IF far = {}
        THEN {[kind |-> "Panic"]}    \* expect("must have at least one point")
        ELSE {[kind |-> "SetDestination", destination |-> d] : d \in far}

Insect_determine_change(point, insect) ==
    LET goal == Insect_determine_reached_goal(point, insect)
        walk == Insect_determine_next_walk(point, insect)
    IN  IF goal # {} THEN goal
        ELSE IF walk # {} THEN walk
        ELSE Insect_determine_next_destination(point, insect)

RECURSIVE Insect_determine_changes(_)
Insect_determine_changes(points) ==
    IF points = <<>> THEN {<<>>}
    ELSE LET point == Head(points)
             rest == Insect_determine_changes(Tail(points))
         IN  IF IsInsect(cells[point])
             THEN {<<[point |-> point, change |-> c]>> \o r :
                     c \in Insect_determine_change(point, cells[point].animal), r \in rest}
             ELSE rest

---------------------------------------------------------------------------
(* InsectSystem::apply_changes, one change of the batch *)

Insect_apply_search_partner(cs, point) ==
    IF IsInsect(cs[point]) /\ cs[point].animal.state = "SearchGrass"
    THEN Applied([cs EXCEPT ![point].animal.state = "SearchPartner",
                            ![point].animal.destination = None], TRUE)
    ELSE Applied(cs, FALSE)

Insect_apply_set_destination(cs, point, destination) ==
    IF IsInsect(cs[point])
    THEN Applied([cs EXCEPT ![point].animal.destination = destination], TRUE)
    ELSE Applied(cs, FALSE)

Insect_apply_eat(cs, point, target) ==
    IF cells_mut_panics(cs, <<point, target>>) THEN Panicked(cs)
    ELSE IF /\ IsInsect(cs[point])
            /\ cs[target].animal.kind = "Dead"
            /\ cs[point].animal.state = "SearchFood"
    THEN Applied([cs EXCEPT ![point].animal.state = "SearchGrass",
                            ![point].animal.destination = None,
                            ![target].animal = EmptyAnimal], TRUE)
    ELSE Applied(cs, FALSE)

Insect_apply_mate(cs, point, partner, new_born) ==
    IF cells_mut_panics(cs, <<point, partner, new_born>>) THEN Panicked(cs)
    ELSE IF /\ IsInsect(cs[point])
            /\ IsInsect(cs[partner])
            /\ cs[new_born].animal.kind = "Empty"
            /\ cs[point].animal.state = "SearchPartner"
            /\ cs[partner].animal.state = "SearchPartner"
    THEN Applied([cs EXCEPT ![point].animal.state = "SearchFood",
                            ![partner].animal.state = "SearchFood",
                            ![new_born].animal = InsectDefault], TRUE)
    ELSE Applied(cs, FALSE)

Insect_apply_move_to(cs, point, target) ==
    IF cells_mut_panics(cs, <<point, target>>) THEN Panicked(cs)
    ELSE IF IsInsect(cs[point]) /\ cs[target].animal.kind = "Empty"
    THEN LET from == cs[point].animal
             moved == [from EXCEPT
                         !.destination = IF from.destination = target
                                         THEN None ELSE from.destination,
                         !.direction = PSub(target, point)]
         IN  Applied([cs EXCEPT ![point].animal = cs[target].animal,
                                ![target].animal = moved], TRUE)
    ELSE Applied(cs, FALSE)

Insect_apply_change(cs, point, change) ==
    CASE change.kind = "SearchPartner" -> Insect_apply_search_partner(cs, point)
      [] change.kind = "SetDestination" ->
            Insect_apply_set_destination(cs, point, change.destination)
      [] change.kind = "Eat" -> Insect_apply_eat(cs, point, change.target)
      [] change.kind = "Mate" ->
            Insect_apply_mate(cs, point, change.partner, change.new_born)
      [] change.kind = "MoveTo" -> Insect_apply_move_to(cs, point, change.target)

---------------------------------------------------------------------------
(* SnakeSystem::determine_changes (snake.rs) *)

IsSnake(cell) == cell.animal.kind = "Snake"

HeadSegment(last_feeding, next_segment) ==
    [kind |-> "Head", last_feeding |-> last_feeding, next_segment |-> next_segment]

BodySegment(next_segment) == [kind |-> "Body", next_segment |-> next_segment]

IsHead(cell) ==
    IsSnake(cell) /\ cell.animal.segment # None /\ cell.animal.segment.kind = "Head"

(* Snake::is_body *)
is_body(cell) ==
    IsSnake(cell) /\ cell.animal.segment # None /\ cell.animal.segment.kind = "Body"

(* Snake::next_segment *)
next_segment(cell) ==
    IF cell.animal.segment = None THEN None ELSE cell.animal.segment.next_segment

SnakeSpeciesIn(cs) == {cs[p].animal.species : p \in {q \in DOMAIN cs : IsSnake(cs[q])}}

(* the SnakeSegmentSet of a species: heads, bodies and spare parts *)
Heads(species) ==
    {p \in DOMAIN cells : IsHead(cells[p]) /\ cells[p].animal.species = species}

Bodies(species) ==
    {p \in DOMAIN cells : is_body(cells[p]) /\ cells[p].animal.species = species}

SpareParts(species) ==
    {p \in DOMAIN cells : /\ IsSnake(cells[p])
                          /\ cells[p].animal.species = species
                          /\ cells[p].animal.segment = None}

UneatenPreys == {p \in DOMAIN cells : cells[p].animal.kind = "Amphibian"}

(* a mutant of the loop of extract_snake: the bodies are looked up but not  *)
(* removed from the set                                                    *)
RECURSIVE extract_walk_bodies_kept(_, _, _, _)
extract_walk_bodies_kept(points, next, bodies, max_size) ==
    IF next # None /\ Len(points) < max_size /\ next \in bodies
    THEN extract_walk_bodies_kept(Append(points, next), next_segment(cells[next]),
                                  bodies, max_size)
    ELSE [points |-> points, bodies |-> bodies]

(* the loop of extract_snake: the points gathered and the bodies left *)
RECURSIVE extract_walk(_, _, _, _)
extract_walk(points, next, bodies, max_size) ==
    IF next # None /\ Len(points) < max_size /\ next \in bodies
    THEN extract_walk(Append(points, next), next_segment(cells[next]),
                      bodies \ {next}, max_size)
    ELSE [points |-> points, bodies |-> bodies]

extract_snake(max_size, head, head_next_segment, bodies) ==
    LET walk == extract_walk(<<head>>, head_next_segment, bodies, max_size)
    IN  [snake |-> IF Len(walk.points) >= config.snake_min_size
                   THEN walk.points ELSE None,
         bodies |-> walk.bodies]

IsFree(p) == p \in DOMAIN cells /\ cells[p].animal.kind = "Empty"

find_movement_target(head, goal) ==
    min_set_by_key({PAdd(head, DIRECTIONS[i]) : i \in 1..4} \cap {q \in DOMAIN cells : IsFree(q)},
                   LAMBDA q : distance(q, goal))

determine_random_walk(snake_points) ==
    LET head == snake_points[1]
        forward == PSub(snake_points[1], snake_points[2])
        directions ==
            IF Len(snake_points) = 1
            THEN {PAdd(head, DIRECTIONS[i]) : i \in 1..4}
            ELSE {PAdd(head, forward), PAdd(head, turn_right(forward)),
                  PAdd(head, turn_left(forward))}
    IN  {[kind |-> "Move", snake |-> snake_points, target |-> q] :
            q \in {d \in directions : IsFree(d)}}

(* a mutant of determine_next_movement: a snake of any size looks for prey *)
determine_next_movement_any_size(snake_points, uneaten, max_size) ==
    LET head == snake_points[1]
        walk == {[change |-> c, uneaten |-> uneaten] :
                    c \in IF determine_random_walk(snake_points) = {}
                          THEN {None} ELSE determine_random_walk(snake_points)}
        foods == SeqToSet(circle(head, config.snake_eating_radius, size)) \cap uneaten
        eats == UNION {{[change |-> [kind |-> "Eat", head |-> head, new_head |-> nh,
                                     food |-> f],
                         uneaten |-> uneaten \ {f}] :
                          nh \in find_movement_target(head, f)} :
                       f \in foods}
        \* determine_eat_nearby_prey gives nothing: no food, or no way to it
        eat_none == foods = {} \/ \E f \in foods : find_movement_target(head, f) = {}
        closest == min_set_by_key(uneaten, LAMBDA q : distance(q, head))
        chase == UNION {IF find_movement_target(head, prey) = {}
                        THEN {[change |-> None, uneaten |-> uneaten]}
                        ELSE {[change |-> [kind |-> "Move", snake |-> snake_points,
                                           target |-> q],
                               uneaten |-> uneaten] :
                                q \in find_movement_target(head, prey)} :
                        prey \in closest}
    IN  eats \cup (IF eat_none THEN (IF closest # {} THEN chase ELSE walk) ELSE {})

(* a mutant of determine_next_movement: the food of an Eat stays among the *)
(* uneaten preys                                                           *)
determine_next_movement_food_kept(snake_points, uneaten, max_size) ==
    LET head == snake_points[1]
        walk == {[change |-> c, uneaten |-> uneaten] :
                    c \in IF determine_random_walk(snake_points) = {}
                          THEN {None} ELSE determine_random_walk(snake_points)}
        foods == SeqToSet(circle(head, config.snake_eating_radius, size)) \cap uneaten
        eats == UNION {{[change |-> [kind |-> "Eat", head |-> head, new_head |-> nh,
                                     food |-> f],
                         uneaten |-> uneaten] :
                          nh \in find_movement_target(head, f)} :
                       f \in foods}
        \* determine_eat_nearby_prey gives nothing: no food, or no way to it
        eat_none == foods = {} \/ \E f \in foods : find_movement_target(head, f) = {}
        closest == min_set_by_key(uneaten, LAMBDA q : distance(q, head))
        chase == UNION {IF find_movement_target(head, prey) = {}
                        THEN {[change |-> None, uneaten |-> uneaten]}
                        ELSE {[change |-> [kind |-> "Move", snake |-> snake_points,
                                           target |-> q],
                               uneaten |-> uneaten] :
                                q \in find_movement_target(head, prey)} :
                        prey \in closest}
    IN  IF Len(snake_points) < max_size
        THEN eats \cup (IF eat_none THEN (IF closest # {} THEN chase ELSE walk) ELSE {})
        ELSE walk

(* the outcomes of determine_next_movement once gen_bool(move_ratio) said  *)
(* yes: the change, if any, and the preys still uneaten                    *)
determine_next_movement(snake_points, uneaten, max_size) ==
    LET head == snake_points[1]
        walk == {[change |-> c, uneaten |-> uneaten] :
                    c \in IF determine_random_walk(snake_points) = {}
                          THEN {None} ELSE determine_random_walk(snake_points)}
        foods == SeqToSet(circle(head, config.snake_eating_radius, size)) \cap uneaten
        eats == UNION {{[change |-> [kind |-> "Eat", head |-> head, new_head |-> nh,
                                     food |-> f],
                         uneaten |-> uneaten \ {f}] :
                          nh \in find_movement_target(head, f)} :
                       f \in foods}
        \* determine_eat_nearby_prey gives nothing: no food, or no way to it
        eat_none == foods = {} \/ \E f \in foods : find_movement_target(head, f) = {}
        closest == min_set_by_key(uneaten, LAMBDA q : distance(q, head))
        chase == UNION {IF find_movement_target(head, prey) = {}
                        THEN {[change |-> None, uneaten |-> uneaten]}
                        ELSE {[change |-> [kind |-> "Move", snake |-> snake_points,
                                           target |-> q],
                               uneaten |-> uneaten] :
                                q \in find_movement_target(head, prey)} :
                        prey \in closest}
    IN  IF Len(snake_points) < max_size
        THEN eats \cup (IF eat_none THEN (IF closest # {} THEN chase ELSE walk) ELSE {})
        ELSE walk

(* what the loop over the heads plans for one head *)
HeadOutcomes(species, head, bodies, uneaten, t) ==
    LET max_size == config.snake_max_size[species]
        segment == cells[head].animal.segment
        found == extract_snake(max_size, head, segment.next_segment, bodies)
        out(cs, u) == [changes |-> cs, bodies |-> found.bodies, uneaten |-> u]
    IN  IF found.snake = None
        THEN {out(<<[kind |-> "Death", point |-> head]>>, uneaten)}
        ELSE IF Elapsed(t, segment.last_feeding) > config.snake_starvation_delay
        THEN {out(<<[kind |-> "Starve", points |-> found.snake]>>, uneaten)}
        ELSE {out(<<>>, uneaten)}    \* gen_bool(move_ratio) said no
             \cup {out(IF m.change = None THEN <<>> ELSE <<m.change>>, m.uneaten) :
                     m \in determine_next_movement(found.snake, uneaten, max_size)}

(* the heads are visited in the order of a HashMap: any order *)
RECURSIVE HeadsOutcomes(_, _, _, _, _)
HeadsOutcomes(species, heads, bodies, uneaten, t) ==
    IF heads = {} THEN {[changes |-> <<>>, bodies |-> bodies, uneaten |-> uneaten]}
    ELSE UNION {UNION {{[changes |-> o.changes \o r.changes, bodies |-> r.bodies,
                         uneaten |-> r.uneaten] :
                          r \in HeadsOutcomes(species, heads \ {h}, o.bodies,
                                              o.uneaten, t)} :
                       o \in HeadOutcomes(species, h, bodies, uneaten, t)} :
                h \in heads}

(* determine_new_snake: grow from a spare part at either end, at random *)
RECURSIVE grow_new_snake(_, _)
grow_new_snake(segments, spare) ==
    LET head == segments[1]
        tail == segments[Len(segments)]
        at_head == {PAdd(head, DIRECTIONS[i]) : i \in 1..4} \cap spare
        at_tail == {PAdd(tail, DIRECTIONS[i]) : i \in 1..4} \cap spare
    IN  IF Len(segments) >= config.snake_min_size
        THEN {[snake |-> segments, spare |-> spare]}
        ELSE IF at_head \cup at_tail = {}
        THEN {[snake |-> None, spare |-> spare]}
        ELSE UNION {grow_new_snake(<<c>> \o segments, spare \ {c}) : c \in at_head}
             \cup UNION {grow_new_snake(Append(segments, c), spare \ {c}) : c \in at_tail}

RECURSIVE NewSnakes(_)
NewSnakes(spare) ==
    IF spare = {} THEN {<<>>}
    ELSE UNION {UNION {{(IF g.snake = None THEN <<>>
                         ELSE <<[kind |-> "NewSnake", points |-> g.snake]>>) \o r :
                          r \in NewSnakes(g.spare)} :
                       g \in grow_new_snake(<<point>>, spare \ {point})} :
                point \in spare}

(* a mutant of determine_species_changes: the bodies left in the set after  *)
(* the heads are not looked at                                              *)
determine_species_changes_heads_only(species, uneaten, t) ==
    {[changes |-> h.changes \o n, uneaten |-> h.uneaten] :
        h \in HeadsOutcomes(species, Heads(species), Bodies(species), uneaten, t),
        n \in NewSnakes(SpareParts(species))}

(* determine_species_changes: heads, then dangling bodies, then new snakes *)
determine_species_changes(species, uneaten, t) ==
    {[changes |-> h.changes
                  \o [i \in 1..Len(SelectSeq(indexed_iter(size), LAMBDA q : q \in h.bodies))
                        |-> [kind |-> "Death",
                             point |-> SelectSeq(indexed_iter(size),
                                                 LAMBDA q : q \in h.bodies)[i]]]
                  \o n,
      uneaten |-> h.uneaten] :
        h \in HeadsOutcomes(species, Heads(species), Bodies(species), uneaten, t),
        n \in NewSnakes(SpareParts(species))}

(* the species are visited in the order of a HashMap: any order *)
RECURSIVE Snake_determine_changes(_, _, _)
Snake_determine_changes(species_left, uneaten, t) ==
    IF species_left = {} THEN {<<>>}
    ELSE UNION {UNION {{o.changes \o r :
                          r \in Snake_determine_changes(species_left \ {sp},
                                                        o.uneaten, t)} :
                       o \in determine_species_changes(sp, uneaten, t)} :
                sp \in species_left}

---------------------------------------------------------------------------
(* SnakeSystem::apply_changes, one change of the batch *)

(* slice.get(i): the element, or None past the end (i counts from 1 here) *)
Get(seq, i) == IF i \in 1..Len(seq) THEN seq[i] ELSE None

(* a mutant of apply_new_snake: the first point is made a Body like the rest *)
apply_new_snake_bodies(cs, points, t) ==
    [q \in DOMAIN cs |->
        IF \E i \in 1..Len(points) : points[i] = q
        THEN LET i == CHOOSE i \in 1..Len(points) : points[i] = q
             IN  [cs[q] EXCEPT !.animal.segment = BodySegment(Get(points, i + 1))]
        ELSE cs[q]]

(* a mutant of apply_new_snake: each point is checked and written on its own *)
apply_new_snake_piecewise(cs, points, t) ==
    [q \in DOMAIN cs |->
        IF /\ \E i \in 1..Len(points) : points[i] = q
           /\ IsSnake(cs[q])
           /\ cs[q].animal.segment = None
        THEN LET i == CHOOSE i \in 1..Len(points) : points[i] = q
             IN  [cs[q] EXCEPT !.animal.segment =
                     IF i = 1 THEN HeadSegment(t, Get(points, 2))
                     ELSE BodySegment(Get(points, i + 1))]
        ELSE cs[q]]

apply_new_snake(cs, points, t) ==
    LET species == cs[points[1]].animal.species
        is_valid_snake ==
            \A i \in 1..Len(points) :
                /\ IsSnake(cs[points[i]])
                /\ cs[points[i]].animal.species = species
                /\ cs[points[i]].animal.segment = None
    IN  IF ~IsSnake(cs[points[1]]) \/ ~is_valid_snake THEN cs
        ELSE [q \in DOMAIN cs |->
                IF \E i \in 1..Len(points) : points[i] = q
                THEN LET i == CHOOSE i \in 1..Len(points) : points[i] = q
                     IN  [cs[q] EXCEPT !.animal.segment =
                            IF i = 1 THEN HeadSegment(t, Get(points, 2))
                            ELSE BodySegment(Get(points, i + 1))]
                ELSE cs[q]]

(* a mutant of apply_move: the check of the body is left out *)
apply_move_body_unchecked(cs, snake, target_point) ==
    LET head == cs[snake[1]]
        n == Len(snake)
        head_ok ==
            /\ IsHead(head)
            /\ head.animal.segment.next_segment = Get(snake, 2)
        new_tail == IF n = 1 THEN target_point ELSE snake[n - 1]
        moved == [[[cs EXCEPT ![target_point].animal =
                        [kind |-> "Snake", species |-> head.animal.species,
                         segment |-> HeadSegment(head.animal.segment.last_feeding,
                                                 snake[1])]]
                      EXCEPT ![snake[1]].animal.segment =
                        BodySegment(head.animal.segment.next_segment)]
                      EXCEPT ![snake[n]].animal = EmptyAnimal]
    IN  IF ~head_ok THEN cs
        ELSE IF cs[target_point].animal # EmptyAnimal THEN cs
        ELSE IF IsSnake(moved[new_tail]) /\ moved[new_tail].animal.segment # None
        THEN [moved EXCEPT ![new_tail].animal.segment.next_segment = None]
        ELSE moved

apply_move(cs, snake, target_point) ==
    LET head == cs[snake[1]]
        n == Len(snake)
        head_ok ==
            /\ IsHead(head)
            /\ head.animal.segment.next_segment = Get(snake, 2)
        body_ok ==
            \A i \in 2..n :
                /\ IsSnake(cs[snake[i]])
                /\ cs[snake[i]].animal.species = head.animal.species
                /\ is_body(cs[snake[i]])
                /\ next_segment(cs[snake[i]]) = Get(snake, i + 1)
        new_tail == IF n = 1 THEN target_point ELSE snake[n - 1]
        moved == [[[cs EXCEPT ![target_point].animal =
                        [kind |-> "Snake", species |-> head.animal.species,
                         segment |-> HeadSegment(head.animal.segment.last_feeding,
                                                 snake[1])]]
                      EXCEPT ![snake[1]].animal.segment =
                        BodySegment(head.animal.segment.next_segment)]
                      EXCEPT ![snake[n]].animal = EmptyAnimal]
    IN  IF ~head_ok THEN cs
        ELSE IF ~body_ok THEN cs
        ELSE IF cs[target_point].animal # EmptyAnimal THEN cs
        ELSE IF IsSnake(moved[new_tail]) /\ moved[new_tail].animal.segment # None
        THEN [moved EXCEPT ![new_tail].animal.segment.next_segment = None]
        ELSE moved

apply_eat_snake(cs, head_point, new_head_point, food_point, t) ==
    LET head == cs[head_point]
    IN  IF ~IsHead(head) THEN cs
        ELSE IF cs[new_head_point].animal # EmptyAnimal THEN cs
        ELSE IF cs[food_point].animal.kind # "Amphibian" THEN cs
        ELSE [cs EXCEPT
                ![head_point].animal.segment =
                    BodySegment(head.animal.segment.next_segment),
                ![new_head_point].animal =
                    [kind |-> "Snake", species |-> head.animal.species,
                     segment |-> HeadSegment(t, head_point)],
                ![food_point].animal = EmptyAnimal]

(* a mutant of apply_death: only a Head dies *)
apply_death_head(cs, point) ==
    IF IsHead(cs[point]) THEN [cs EXCEPT ![point].animal = DeadAnimal] ELSE cs

apply_death(cs, point) ==
    IF IsSnake(cs[point]) THEN [cs EXCEPT ![point].animal = DeadAnimal] ELSE cs

RECURSIVE apply_starvation(_, _)
apply_starvation(cs, points) ==
    IF points = <<>> THEN cs
    ELSE apply_starvation(apply_death(cs, Head(points)), Tail(points))

(* a mutant of the match of apply_changes: every arm sets changed_map *)
Snake_apply_change_all_set(cs, change, t) ==
    CASE change.kind = "NewSnake" -> Applied(apply_new_snake(cs, change.points, t), TRUE)
      [] change.kind = "Move" ->
            Applied(apply_move(cs, change.snake, change.target), TRUE)
      [] change.kind = "Eat" ->
            IF cells_mut_panics(cs, <<change.head, change.new_head, change.food>>)
            THEN Panicked(cs)
            ELSE Applied(apply_eat_snake(cs, change.head, change.new_head,
                                         change.food, t), TRUE)
      [] change.kind = "Death" -> Applied(apply_death(cs, change.point), TRUE)
      [] change.kind = "Starve" -> Applied(apply_starvation(cs, change.points), TRUE)

(* the match of apply_changes: the cells after the change, whether the arm  *)
(* sets changed_map, and whether three_cells_mut panics                     *)
Snake_apply_change(cs, change, t) ==
    CASE change.kind = "NewSnake" -> Applied(apply_new_snake(cs, change.points, t), FALSE)
      [] change.kind = "Move" ->
            Applied(apply_move(cs, change.snake, change.target), TRUE)
      [] change.kind = "Eat" ->
            IF cells_mut_panics(cs, <<change.head, change.new_head, change.food>>)
            THEN Panicked(cs)
            ELSE Applied(apply_eat_snake(cs, change.head, change.new_head,
                                         change.food, t), TRUE)
      [] change.kind = "Death" -> Applied(apply_death(cs, change.point), TRUE)
      [] change.kind = "Starve" -> Applied(apply_starvation(cs, change.points), TRUE)

---------------------------------------------------------------------------
(* CellWater::drier / wetter: the level below / above, if there is one *)

drier(water) ==
    CASE water = "Empty" -> {}
      [] water = "Shallow" -> {"Empty"}
      [] water = "Deep" -> {"Shallow"}

wetter(water) ==
    CASE water = "Empty" -> {"Shallow"}
      [] water = "Shallow" -> {"Deep"}
      [] water = "Deep" -> {}

TheOne(S) == CHOOSE e \in S : TRUE

---------------------------------------------------------------------------
(* WaterCycleSystem (water_cycle.rs) *)

(* a mutant of water_cycle_circle: the loop starts at -radius, so the point *)
(* of the first push is pushed again                                        *)
water_cycle_circle_whole_loop(center_x, center_y, radius, map_size) ==
    LET pair(dx) ==
            <<<<center_x + dx, center_y + (radius - Abs(dx))>>,
              <<center_x + dx, center_y - (radius - Abs(dx))>>>>
        pushed ==
            IF radius = 0 THEN <<<<center_x, center_y>>>>
            ELSE <<<<center_x - radius, center_y>>, <<center_x + radius, center_y>>>>
                 \o Flatten([i \in 1..(2 * radius) |-> pair(i - radius - 1)])
    IN  SelectSeq(pushed, LAMBDA c : /\ c[1] >= 0 /\ c[1] < map_size
                                     /\ c[2] >= 0 /\ c[2] < map_size)

(* WaterCycleSystem::circle: the candidates [x, y] at exactly `radius` from *)
(* the center, in the order they are pushed                                 *)
water_cycle_circle(center_x, center_y, radius, map_size) ==
    LET pair(dx) ==
            <<<<center_x + dx, center_y + (radius - Abs(dx))>>,
              <<center_x + dx, center_y - (radius - Abs(dx))>>>>
        pushed ==
            IF radius = 0 THEN <<<<center_x, center_y>>>>
            ELSE <<<<center_x - radius, center_y>>, <<center_x + radius, center_y>>>>
                 \o Flatten([i \in 1..(2 * radius - 1) |-> pair(i - radius)])
    IN  SelectSeq(pushed, LAMBDA c : /\ c[1] >= 0 /\ c[1] < map_size
                                     /\ c[2] >= 0 /\ c[2] < map_size)

(* the cells of the candidates. A candidate [a, b] indexes the cell array  *)
(* as (row a, column b), which is the point with x = b and y = a.          *)
RainCircle(center_x, center_y, radius, map_size) ==
    {Pt(c[2], c[1]) : c \in SeqToSet(water_cycle_circle(center_x, center_y, radius, map_size))}

(* a mutant of the rain loop: the atmosphere gives one unit for each circle *)
(* that got rain, however many of its cells were wetted                    *)
RECURSIVE RainFrom_per_circle(_, _, _, _, _, _)
RainFrom_per_circle(cs, atmosphere, remaining_rain, radius, center_x, center_y) ==
    IF remaining_rain <= 0 \/ radius > config.water_max_rain_radius
    THEN {[cells |-> cs, atmosphere |-> atmosphere]}
    ELSE LET wettable == {q \in RainCircle(center_x, center_y, radius, size) :
                            wetter(cs[q].water) # {}}
             k == Min2(remaining_rain, Cardinality(wettable))
         IN  UNION {RainFrom_per_circle([q \in DOMAIN cs |->
                                 IF q \in W
                                 THEN [cs[q] EXCEPT !.water = TheOne(wetter(cs[q].water))]
                                 ELSE cs[q]],
                              atmosphere - Min2(k, 1), remaining_rain - k, radius + 1,
                              center_x, center_y) :
                    W \in {W \in SUBSET wettable : Cardinality(W) = k}}

(* add_rain over the shuffled candidates of one radius, then the next radius: *)
(* each candidate that can get wetter does, until the rain is used up         *)
RECURSIVE RainFrom(_, _, _, _, _, _)
RainFrom(cs, atmosphere, remaining_rain, radius, center_x, center_y) ==
    IF remaining_rain <= 0 \/ radius > config.water_max_rain_radius
    THEN {[cells |-> cs, atmosphere |-> atmosphere]}
    ELSE LET wettable == {q \in RainCircle(center_x, center_y, radius, size) :
                            wetter(cs[q].water) # {}}
             k == Min2(remaining_rain, Cardinality(wettable))
         IN  UNION {RainFrom([q \in DOMAIN cs |->
                                 IF q \in W
                                 THEN [cs[q] EXCEPT !.water = TheOne(wetter(cs[q].water))]
                                 ELSE cs[q]],
                              atmosphere - k, remaining_rain - k, radius + 1,
                              center_x, center_y) :
                    W \in {W \in SUBSET wettable : Cardinality(W) = k}}

(* a mutant of RemainingRain: the ratio may exceed 1 *)
RemainingRain_over(atmosphere) == 1..(atmosphere + 1)

(* ceil(atmosphere_water * ratio_per_tick) for a ratio strictly between 0 and 1 *)
RemainingRain(atmosphere) == IF atmosphere > 0 THEN 1..atmosphere ELSE {0}

WaterUnchanged ==
    UNCHANGED <<config, now, rlock, wlock, tnow, changes, changed_map, request,
                response, paint_request, paint_status, paints>>

(* one tick of rain(), the first or after the sleep of the tick before it, *)
(* of rain() or of evaporate(): the write guard, the rain, notify_update,  *)
(* the guard dropped, and the sleep of the tick begins                     *)
Rain ==
    LET t == "water_cycle"
    IN  /\ pc[t] \in {"start", "sleep", "evaporate_sleep"}
        /\ CanWrite
        /\ \E center_x \in 0..(size - 1), center_y \in 0..(size - 1),
              remaining_rain \in RemainingRain(atmosphere_water) :
              \E o \in RainFrom(cells, atmosphere_water, remaining_rain, 0,
                                center_x, center_y) :
                  /\ cells' = o.cells
                  /\ atmosphere_water' = o.atmosphere
        /\ notify_update
        /\ pc' = [pc EXCEPT ![t] = "sleep"]
        /\ committed' = Shown'
        /\ WaterUnchanged

(* one tick of evaporate(), after the sleep of the tick before it, of rain() *)
(* or of evaporate(): every cell holding water may lose one level           *)
Evaporate ==
    LET t == "water_cycle"
        wet == {q \in DOMAIN cells : drier(cells[q].water) # {}}
    IN  /\ pc[t] \in {"sleep", "evaporate_sleep"}
        /\ CanWrite
        /\ \E D \in SUBSET wet :
              /\ cells' = [q \in DOMAIN cells |->
                             IF q \in D
                             THEN [cells[q] EXCEPT !.water = TheOne(drier(cells[q].water))]
                             ELSE cells[q]]
              /\ atmosphere_water' = atmosphere_water + Cardinality(D)
        /\ notify_update
        /\ pc' = [pc EXCEPT ![t] = "evaporate_sleep"]
        /\ committed' = Shown'
        /\ WaterUnchanged

---------------------------------------------------------------------------
(* WaterFlowSystem (water_flow.rs) *)

(* the targets of a source, closest first and lowest first among equals;   *)
(* the sort is stable, so ties keep the order of the scan (row, column)    *)
FlowTargetBefore(a, b) ==
    \/ a.radius < b.radius
    \/ a.radius = b.radius /\ a.height < b.height
    \/ a.radius = b.radius /\ a.height = b.height /\ a.point.y < b.point.y
    \/ /\ a.radius = b.radius /\ a.height = b.height
       /\ a.point.y = b.point.y /\ a.point.x < b.point.x

RECURSIVE SortTargets(_)
SortTargets(S) ==
    IF S = {} THEN <<>>
    ELSE LET first == CHOOSE a \in S : \A b \in S \ {a} : FlowTargetBefore(a, b)
         IN  <<first>> \o SortTargets(S \ {first})

(* a mutant of determine_water_flows: the lowest target first, whatever its *)
(* distance                                                                *)
RECURSIVE SortTargetsLowestFirst(_)
SortTargetsLowestFirst(S) ==
    IF S = {} THEN <<>>
    ELSE LET first == CHOOSE a \in S : \A b \in S \ {a} :
                          \/ a.height < b.height
                          \/ a.height = b.height /\ FlowTargetBefore(a, b)
         IN  <<first>> \o SortTargetsLowestFirst(S \ {first})

determine_water_flows_lowest_first(source) ==
    SortTargetsLowestFirst({[point |-> q, radius |-> distance(source, q),
                             height |-> cells[q].height,
                             fall |-> cells[source].height - cells[q].height] :
                    q \in {q \in DOMAIN cells :
                            /\ distance(source, q) <= config.water_flow_max_radius
                            /\ cells[source].height - cells[q].height
                                   > -config.water_thickness}})

determine_water_flows(source) ==
    SortTargets({[point |-> q, radius |-> distance(source, q),
                  height |-> cells[q].height,
                  fall |-> cells[source].height - cells[q].height] :
                    q \in {q \in DOMAIN cells :
                            /\ distance(source, q) <= config.water_flow_max_radius
                            /\ cells[source].height - cells[q].height
                                   > -config.water_thickness}})

(* a mutant of min_fall: water spreads to a dry cell of the same height *)
min_fall_level(source_drier, target_wetter) ==
    CASE source_drier = "Empty" /\ target_wetter = "Shallow" -> -config.water_thickness
      [] source_drier = "Empty" /\ target_wetter = "Deep" -> config.water_thickness
      [] source_drier = "Shallow" /\ target_wetter = "Shallow" -> -config.water_thickness
      [] source_drier = "Shallow" /\ target_wetter = "Deep" -> 0

(* a mutant of min_fall: a shallow cell may fill a shallow cell just above *)
min_fall_uphill(source_drier, target_wetter) ==
    CASE source_drier = "Empty" /\ target_wetter = "Shallow" -> 0
      [] source_drier = "Empty" /\ target_wetter = "Deep" -> -config.water_thickness
      [] source_drier = "Shallow" /\ target_wetter = "Shallow" -> -config.water_thickness
      [] source_drier = "Shallow" /\ target_wetter = "Deep" -> 0

(* the least fall a flow needs, by the levels the source and target get *)
min_fall(source_drier, target_wetter) ==
    CASE source_drier = "Empty" /\ target_wetter = "Shallow" -> 0
      [] source_drier = "Empty" /\ target_wetter = "Deep" -> config.water_thickness
      [] source_drier = "Shallow" /\ target_wetter = "Shallow" -> -config.water_thickness
      [] source_drier = "Shallow" /\ target_wetter = "Deep" -> 0

(* a mutant of flow: a cell that received water in the tick gives it on *)
RECURSIVE flow_chained(_, _, _, _)
flow_chained(cs, sources, received, flowed) ==
    IF sources = <<>> THEN [cells |-> cs, flowed |-> flowed, received |-> received]
    ELSE LET source == Head(sources)
             targets == determine_water_flows(source)
             takes(i) ==
                 /\ wetter(cs[targets[i].point].water) # {}
                 /\ targets[i].fall > min_fall(TheOne(drier(cs[source].water)),
                                               TheOne(wetter(cs[targets[i].point].water)))
             hits == {i \in 1..Len(targets) : takes(i)}
             target == targets[CHOOSE i \in hits : \A j \in hits : i <= j].point
         IN  IF drier(cs[source].water) = {} \/ hits = {}
             THEN flow_chained(cs, Tail(sources), received, flowed)
             ELSE flow_chained([cs EXCEPT ![target].water = TheOne(wetter(cs[target].water)),
                                  ![source].water = TheOne(drier(cs[source].water))],
                       Tail(sources), received \cup {target}, flowed + 1)

(* the loop of flow() over the sources still to visit *)
RECURSIVE flow(_, _, _, _)
flow(cs, sources, received, flowed) ==
    IF sources = <<>> THEN [cells |-> cs, flowed |-> flowed, received |-> received]
    ELSE LET source == Head(sources)
             targets == determine_water_flows(source)
             takes(i) ==
                 /\ wetter(cs[targets[i].point].water) # {}
                 /\ targets[i].fall > min_fall(TheOne(drier(cs[source].water)),
                                               TheOne(wetter(cs[targets[i].point].water)))
             hits == {i \in 1..Len(targets) : takes(i)}
             target == targets[CHOOSE i \in hits : \A j \in hits : i <= j].point
         IN  IF source \in received \/ drier(cs[source].water) = {} \/ hits = {}
             THEN flow(cs, Tail(sources), received, flowed)
             ELSE flow([cs EXCEPT ![target].water = TheOne(wetter(cs[target].water)),
                                  ![source].water = TheOne(drier(cs[source].water))],
                       Tail(sources), received \cup {target}, flowed + 1)

(* one call of flow(): the write guard, the flows, notify_update if any *)
WaterFlow ==
    LET t == "water_flow"
        o == flow(cells, indexed_iter(size), {}, 0)
    IN  /\ pc[t] \in {"start", "sleep"}
        /\ CanWrite
        /\ cells' = o.cells
        /\ IF o.flowed > 0 THEN notify_update ELSE no_notify
        /\ pc' = [pc EXCEPT ![t] = "sleep"]
        /\ committed' = Shown'
        /\ UNCHANGED atmosphere_water
        /\ WaterUnchanged

---------------------------------------------------------------------------
(* Initial values shared by the specifications *)

ConfigDefault ==
    [map_size |-> 1,
     amphibian_eating_radius |-> 1, amphibian_mating_radius |-> 1,
     amphibian_destination_radius |-> 1, amphibian_starvation_delay |-> 1,
     insect_mating_radius |-> 1, insect_destination_radius |-> 1,
     snake_min_size |-> 2, snake_max_size |-> [s \in {"A", "B", "C"} |-> 3],
     snake_eating_radius |-> 1, snake_starvation_delay |-> 1,
     water_in_atmosphere |-> 1, water_max_rain_radius |-> 1,
     water_flow_max_radius |-> 1, water_thickness |-> 1]

InitTasks ==
    /\ version_id = 0
    /\ wall = 1
    /\ now = 0
    /\ rlock = {}
    /\ wlock = "none"
    /\ pc = [t \in Tasks |-> "start"]
    /\ tnow = [t \in Tickers |-> 0]
    /\ changes = [t \in Tickers |-> <<>>]
    /\ changed_map = [t \in Tickers |-> FALSE]
    /\ request = [r \in Readers |-> {}]
    /\ response = [r \in Readers |-> NoResponse]
    /\ notified = {}
    /\ paint_request = None
    /\ paint_status = 0
    /\ paints = 0
    /\ notifies = 0
    /\ max_version = 0
    /\ atmosphere_water = config.water_in_atmosphere
    /\ committed = Shown

---------------------------------------------------------------------------
(* The clocks *)

(* Instant::now() never goes back *)
InstantTick ==
    /\ now < MaxTime
    /\ now' = now + 1
    /\ UNCHANGED <<config, cells, version_id, wall, rlock, wlock, pc, tnow, changes,
                   changed_map, request, response, notified,
                   paint_request, paint_status, paints, notifies, max_version,
                   atmosphere_water, committed>>

(* SystemTime is not monotonic: the operator or the time service may set   *)
(* the wall clock back                                                     *)
WallStepBack ==
    /\ \E w \in 0..(wall - 1) : wall' = w
    /\ UNCHANGED <<config, cells, version_id, now, rlock, wlock, pc, tnow, changes,
                   changed_map, request, response, notified,
                   paint_request, paint_status, paints, notifies, max_version,
                   atmosphere_water, committed>>

---------------------------------------------------------------------------
(* GET /api/map: get_map *)

(* the guard of the first block is dropped at its end *)
DropRead_kept(r) == rlock

DropRead(r) == rlock \ {r}

ReaderUnchanged ==
    UNCHANGED <<config, cells, version_id, wall, now, wlock, tnow, changes,
                changed_map, paint_request, paint_status, paints, notifies,
                max_version, atmosphere_water, committed>>

(* a request arrives, with no last_version_id or with one seen or stale *)
GetMapCall(r) ==
    /\ pc[r] \in {"start", "done"}
    /\ \E last \in {{}} \cup {{response[r].version_id} : x \in {response[r]} \ {NoResponse}} :
          request' = [request EXCEPT ![r] = last]
    /\ pc' = [pc EXCEPT ![r] = "read"]
    /\ UNCHANGED <<rlock, response, notified>>
    /\ ReaderUnchanged

(* map.read(): the first read guard *)
GetMapRead(r) ==
    /\ pc[r] = "read"
    /\ CanRead
    /\ rlock' = rlock \cup {r}
    /\ pc' = [pc EXCEPT ![r] = "check"]
    /\ UNCHANGED <<request, response, notified>>
    /\ ReaderUnchanged

(* the match on last_version_id, under the guard: respond at once, or drop *)
(* the guard to wait                                                       *)
GetMapCheck(r) ==
    /\ pc[r] = "check"
    /\ IF request[r] = {version_id}
       THEN /\ pc' = [pc EXCEPT ![r] = "await"]
            /\ UNCHANGED <<response>>
       ELSE /\ pc' = [pc EXCEPT ![r] = "done"]
            /\ response' = [response EXCEPT ![r] = prepare_response]
    /\ rlock' = DropRead(r)
    /\ UNCHANGED <<request, notified>>
    /\ ReaderUnchanged

(* change_notifier.notified(): from here on notify_waiters wakes the reader *)
GetMapAwait(r) ==
    /\ pc[r] = "await"
    /\ pc' = [pc EXCEPT ![r] = "waiting"]
    /\ notified' = notified \ {r}
    /\ UNCHANGED <<rlock, request, response>>
    /\ ReaderUnchanged

(* the await ends: woken by notify_waiters *)
GetMapWake(r) ==
    /\ pc[r] = "waiting"
    /\ r \in notified
    /\ pc' = [pc EXCEPT ![r] = "reread"]
    /\ notified' = notified \ {r}
    /\ UNCHANGED <<rlock, request, response>>
    /\ ReaderUnchanged

(* a mutant of GetMapTimeout: the await has no timeout, only the signal ends it *)
GetMapTimeout_never(r) == GetMapWake(r)

(* the await ends: long_pooling_seconds have passed *)
GetMapTimeout(r) ==
    /\ pc[r] = "waiting"
    /\ pc' = [pc EXCEPT ![r] = "reread"]
    /\ notified' = notified \ {r}
    /\ UNCHANGED <<rlock, request, response>>
    /\ ReaderUnchanged

(* map.read() again *)
GetMapReread(r) ==
    /\ pc[r] = "reread"
    /\ CanRead
    /\ rlock' = rlock \cup {r}
    /\ pc' = [pc EXCEPT ![r] = "respond"]
    /\ UNCHANGED <<request, response, notified>>
    /\ ReaderUnchanged

(* prepare_response under the second guard, dropped at the end of the statement *)
GetMapRespond(r) ==
    /\ pc[r] = "respond"
    /\ pc' = [pc EXCEPT ![r] = "done"]
    /\ response' = [response EXCEPT ![r] = prepare_response]
    /\ rlock' = DropRead(r)
    /\ UNCHANGED <<request, notified>>
    /\ ReaderUnchanged

---------------------------------------------------------------------------
(* The steps every ticker shares *)

TickerUnchanged ==
    UNCHANGED <<config, now, request, response, paint_request,
                paint_status, paints, atmosphere_water>>

(* map.write() of apply_changes: the guard is handed out, changed_map = false *)
CommitAcquire(t) ==
    /\ pc[t] = "apply"
    /\ CanWrite
    /\ wall < MaxWall
    /\ wlock' = t
    /\ changed_map' = [changed_map EXCEPT ![t] = FALSE]
    /\ pc' = [pc EXCEPT ![t] = "applying"]
    /\ UNCHANGED <<cells, version_id, wall, rlock, tnow, changes, notified,
                   notifies, max_version, committed>>
    /\ TickerUnchanged

(* a mutant of CommitEnd: the write guard is kept through the sleep *)
CommitEnd_guard_kept(t) ==
    /\ pc[t] = "applying"
    /\ changes[t] = <<>>
    /\ IF changed_map[t] THEN notify_update ELSE no_notify
    /\ wlock' = wlock
    /\ pc' = [pc EXCEPT ![t] = "sleep"]
    /\ UNCHANGED <<cells, rlock, tnow, changes, changed_map>>
    /\ committed' = Shown'
    /\ TickerUnchanged

(* the end of apply_changes: notify_update if the map changed, then the     *)
(* write guard is dropped and the ticker goes to sleep                      *)
CommitEnd(t) ==
    /\ pc[t] = "applying"
    /\ changes[t] = <<>>
    /\ IF changed_map[t] THEN notify_update ELSE no_notify
    /\ wlock' = "none"
    /\ pc' = [pc EXCEPT ![t] = "sleep"]
    /\ UNCHANGED <<cells, rlock, tnow, changes, changed_map>>
    /\ committed' = Shown'
    /\ TickerUnchanged

---------------------------------------------------------------------------
(* The amphibian ticker: SimpleAnimalSystem<Amphibian>::run *)

(* determine_changes under a read guard, dropped on return; apply_changes   *)
(* then reads the clock                                                     *)
AmphibianPlan ==
    LET t == "amphibian"
    IN  /\ pc[t] \in {"start", "sleep"}
        /\ CanRead
        /\ \E batch \in determine_changes(now, indexed_iter(size)) :
              IF HasPanic(batch)
              THEN /\ pc' = [pc EXCEPT ![t] = "panicked"]
                   /\ UNCHANGED <<changes, tnow>>
              ELSE /\ pc' = [pc EXCEPT ![t] = "apply"]
                   /\ changes' = [changes EXCEPT ![t] = batch]
                   /\ tnow' = [tnow EXCEPT ![t] = now]
        /\ UNCHANGED <<cells, version_id, wall, rlock, wlock, changed_map, notified,
                       notifies, max_version, committed>>
        /\ TickerUnchanged

(* one iteration of the loop of apply_changes *)
AmphibianApply ==
    LET t == "amphibian"
        next == Head(changes[t])
        r == apply_change(cells, next.point, next.change, tnow[t], now)
    IN  /\ pc[t] = "applying"
        /\ changes[t] # <<>>
        /\ IF r.panic
           THEN /\ pc' = [pc EXCEPT ![t] = "panicked"]
                /\ wlock' = "poisoned"
                /\ UNCHANGED committed
                /\ UNCHANGED <<cells, changes, changed_map>>
           ELSE /\ cells' = r.cells
                /\ changes' = [changes EXCEPT ![t] = Tail(changes[t])]
                /\ changed_map' = [changed_map EXCEPT ![t] = changed_map[t] \/ r.changed]
                /\ UNCHANGED <<pc, wlock, committed>>
        /\ UNCHANGED <<version_id, wall, rlock, tnow, notified, notifies, max_version>>
        /\ TickerUnchanged

---------------------------------------------------------------------------
(* The insect ticker: InsectSystem::run *)

InsectPlan ==
    LET t == "insect"
    IN  /\ pc[t] \in {"start", "sleep"}
        /\ CanRead
        /\ \E batch \in Insect_determine_changes(indexed_iter(size)) :
              IF HasPanic(batch)
              THEN /\ pc' = [pc EXCEPT ![t] = "panicked"]
                   /\ UNCHANGED changes
              ELSE /\ pc' = [pc EXCEPT ![t] = "apply"]
                   /\ changes' = [changes EXCEPT ![t] = batch]
        /\ UNCHANGED <<cells, version_id, wall, rlock, wlock, tnow, changed_map,
                       notified, notifies, max_version, committed>>
        /\ TickerUnchanged

InsectApply ==
    LET t == "insect"
        next == Head(changes[t])
        r == Insect_apply_change(cells, next.point, next.change)
    IN  /\ pc[t] = "applying"
        /\ changes[t] # <<>>
        /\ IF r.panic
           THEN /\ pc' = [pc EXCEPT ![t] = "panicked"]
                /\ wlock' = "poisoned"
                /\ UNCHANGED committed
                /\ UNCHANGED <<cells, changes, changed_map>>
           ELSE /\ cells' = r.cells
                /\ changes' = [changes EXCEPT ![t] = Tail(changes[t])]
                /\ changed_map' = [changed_map EXCEPT ![t] = changed_map[t] \/ r.changed]
                /\ UNCHANGED <<pc, wlock, committed>>
        /\ UNCHANGED <<version_id, wall, rlock, tnow, notified, notifies, max_version>>
        /\ TickerUnchanged

---------------------------------------------------------------------------
(* The snake ticker: SnakeSystem::run *)

SnakePlan ==
    LET t == "snake"
    IN  /\ pc[t] \in {"start", "sleep"}
        /\ CanRead
        /\ \E batch \in Snake_determine_changes(SnakeSpeciesIn(cells), UneatenPreys, now) :
              changes' = [changes EXCEPT ![t] = batch]
        /\ pc' = [pc EXCEPT ![t] = "apply"]
        /\ UNCHANGED <<cells, version_id, wall, rlock, wlock, tnow, changed_map,
                       notified, notifies, max_version, committed>>
        /\ TickerUnchanged

SnakeApply ==
    LET t == "snake"
        r == Snake_apply_change(cells, Head(changes[t]), now)
    IN  /\ pc[t] = "applying"
        /\ changes[t] # <<>>
        /\ IF r.panic
           THEN /\ pc' = [pc EXCEPT ![t] = "panicked"]
                /\ wlock' = "poisoned"
                /\ UNCHANGED committed
                /\ UNCHANGED <<cells, changes, changed_map>>
           ELSE /\ cells' = r.cells
                /\ changes' = [changes EXCEPT ![t] = Tail(changes[t])]
                /\ changed_map' = [changed_map EXCEPT ![t] = changed_map[t] \/ r.changed]
                /\ UNCHANGED <<pc, wlock, committed>>
        /\ UNCHANGED <<version_id, wall, rlock, tnow, notified, notifies, max_version>>
        /\ TickerUnchanged

---------------------------------------------------------------------------
(* SpecPaint: one cell in any state of its layers, painted by requests      *)

AnimalSamples ==
    {EmptyAnimal, DeadAnimal, InsectDefault, SimpleAnimalDefault(0),
     SnakeNew("A"), SnakeNew("B"), SnakeNew("C")}

InitPaint ==
    /\ config = [ConfigDefault EXCEPT !.map_size = 1]
    /\ \E a \in AnimalSamples, w \in {"Empty", "Shallow", "Deep"},
          g \in {"Empty", "Dry", "Low", "High"} :
          cells = [p \in GridPoints(1) |->
                      [animal |-> a, water |-> w, grass |-> g, height |-> 0]]
    /\ InitTasks

PaintAny ==
    \E x \in 0..size, y \in 0..size, ci \in 0..Len(ALL_COLORS) :
        set_cell_color(x, y, ci)

NextPaint == PaintAny

SpecPaint == InitPaint /\ [][NextPaint]_vars

---------------------------------------------------------------------------
(* C10: after a successful paint of a paintable color c, the cell's color   *)
(* is c when c is Empty or an animal color; for ShallowWater it is c iff    *)
(* the animal layer is Empty; for LowGrass it is c iff the animal and water *)
(* layers are Empty; otherwise it is the color the layers of higher         *)
(* precedence already gave the cell.                                        *)

AnimalColors == {"Ant", "Frog", "Snake1", "Snake2", "Snake3"}

PaintedNow == paints' = paints + 1 /\ paint_status' = OkStatus

C10_PaintThenColor ==
    [][PaintedNow =>
        LET p == paint_request'.point
            c == ALL_COLORS[paint_request'.color_index + 1]
            old == cells[p]
            new == cells'[p]
        IN  /\ c \in AVAILABLE_COLORS
            /\ c \in {"Empty"} \cup AnimalColors => color(new) = c
            /\ c = "ShallowWater" =>
                  /\ (color(new) = c) <=> (old.animal = EmptyAnimal)
                  /\ old.animal # EmptyAnimal => color(new) = color(old)
            /\ c = "LowGrass" =>
                  /\ (color(new) = c)
                        <=> (old.animal = EmptyAnimal /\ old.water = "Empty")
                  /\ ~(old.animal = EmptyAnimal /\ old.water = "Empty")
                        => color(new) = color(old)
    ]_vars

(* a cell holding an animal and water has just been painted LowGrass *)
C10_Witness ==
    /\ paint_status = OkStatus
    /\ paint_request # None
    /\ paint_request.color_index = 7
    /\ cells[paint_request.point].animal # EmptyAnimal
    /\ cells[paint_request.point].water = "Deep"
    /\ cells[paint_request.point].grass = "Low"

---------------------------------------------------------------------------
(* C9: a paint request whose coordinate is out of range or whose color is   *)
(* not paintable (DryGrass, HighGrass, DeepWater, DeadMatter or an index    *)
(* that names no color) is answered 400, changes no layer of any cell and   *)
(* not the version id, and wakes no waiter.                                 *)

Rejectable(req) ==
    \/ req.point \notin DOMAIN cells
    \/ try_from_index(req.color_index) \notin AVAILABLE_COLORS

C9_RejectedAsBadRequest ==
    [][(paints' = paints + 1 /\ Rejectable(paint_request')) =>
        /\ paint_status' = BadRequestStatus
        /\ cells' = cells
        /\ version_id' = version_id
        /\ notified' = notified
        /\ notifies' = notifies
    ]_vars

---------------------------------------------------------------------------
(* SpecAnimal: a 2 x 2 world with amphibians, their ticker, a painter and a *)
(* long-poll reader                                                         *)

AnimalPalette == {"Empty", "Ant", "Frog", "ShallowWater"}

AmphibianIn(state) == [SimpleAnimalDefault(0) EXCEPT !.state = state]

InitAnimal ==
    /\ config = [ConfigDefault EXCEPT !.map_size = 2]
    /\ \E first \in {AmphibianIn("SearchFood"), AmphibianIn("SearchPartner")},
          second \in {EmptyAnimal, InsectDefault, AmphibianIn("SearchPartner")},
          w \in {"Empty", "Shallow"} :
          cells = [p \in GridPoints(2) |->
                     IF p = Pt(0, 0) THEN [CellEmpty(0) EXCEPT !.animal = first]
                     ELSE IF p = Pt(1, 0) THEN [CellEmpty(0) EXCEPT !.animal = second]
                     ELSE IF p = Pt(1, 1) THEN [CellEmpty(0) EXCEPT !.water = w]
                     ELSE CellEmpty(0)]
    /\ InitTasks

PaintAnimal ==
    \E p \in GridPoints(size), c \in AnimalPalette :
        set_cell_color(p.x, p.y, as_index(c))

NextAnimal ==
    \/ InstantTick
    \/ PaintAnimal
    \/ AmphibianPlan
    \/ CommitAcquire("amphibian")
    \/ AmphibianApply
    \/ CommitEnd("amphibian")
    \/ InsectPlan
    \/ CommitAcquire("insect")
    \/ InsectApply
    \/ CommitEnd("insect")

SpecAnimal == InitAnimal /\ [][NextAnimal]_vars

---------------------------------------------------------------------------
(* C6: every simple-animal Eat, Mate and MoveTo that takes effect at commit *)
(* found its target predicate true at that moment, whatever was committed   *)
(* since the plan: the cell an Eat empties is food, the cell a Mate fills   *)
(* and the cell a MoveTo enters hold no animal; so no animal is ever        *)
(* overwritten by a move or a birth.                                        *)

AnimalTickers == {"amphibian", "insect"}

(* the change the committing ticker applies in this step *)
Applying == Head(changes[wlock])

IsFoodOf(t, cell) ==
    IF t = "amphibian" THEN AmphibianIsFoodGoal(cell) ELSE cell.animal.kind = "Dead"

MoveTarget(t, change) ==
    IF t = "amphibian" THEN change.candidate.target ELSE change.target

C6_TargetsHoldAtCommit ==
    [][(wlock \in AnimalTickers /\ changes[wlock] # <<>> /\ cells' # cells) =>
        LET c == Applying.change
            from == Applying.point
        IN  /\ c.kind = "Eat" => IsFoodOf(wlock, cells[c.target])
            /\ c.kind = "Mate" => cells[c.new_born].animal = EmptyAnimal
            /\ c.kind = "MoveTo" => cells[MoveTarget(wlock, c)].animal = EmptyAnimal
            /\ c.kind \in {"Mate", "MoveTo"} =>
                  \A q \in DOMAIN cells :
                      cells[q].animal # EmptyAnimal =>
                          \/ cells'[q].animal.kind = cells[q].animal.kind
                          \/ /\ c.kind = "MoveTo"
                             /\ q = from
                             /\ cells'[q].animal = EmptyAnimal
                             /\ cells'[MoveTarget(wlock, c)].animal.kind
                                    = cells[q].animal.kind
    ]_vars

(* an amphibian's batch has changed the map after a paint was handled *)
C6_Witness ==
    /\ wlock = "amphibian"
    /\ changed_map["amphibian"]
    /\ paints > 0
    /\ paint_status = OkStatus

---------------------------------------------------------------------------
(* C7: a change that alters an amphibian's phase takes effect at commit     *)
(* only if the cell still holds an amphibian in the phase the change was    *)
(* planned from (Eat: SearchFood, promotion: SearchMatingGround, Mate and   *)
(* the fallback: SearchPartner); a SearchFood animal reaches                *)
(* SearchMatingGround only by an Eat.                                       *)

PlannedFrom(kind) ==
    CASE kind = "Eat" -> {"SearchFood"}
      [] kind = "SearchPartner" -> {"SearchMatingGround"}
      [] kind = "Mate" -> {"SearchPartner"}
      [] kind = "SearchMatingGround" -> {"SearchPartner"}
      [] OTHER -> {"SearchFood", "SearchMatingGround", "SearchPartner"}

C7_PhaseRechecked ==
    [][(wlock = "amphibian" /\ changes[wlock] # <<>>) =>
        LET c == Applying.change
            old == cells[Applying.point].animal
            new == cells'[Applying.point].animal
        IN  (old.kind = "Amphibian" /\ new.kind = "Amphibian" /\ new.state # old.state) =>
                /\ old.state \in PlannedFrom(c.kind)
                /\ (old.state = "SearchFood" /\ new.state = "SearchMatingGround")
                      => c.kind = "Eat"
    ]_vars

---------------------------------------------------------------------------
(* SpecSnake: a 2 x 2 world with a snake of species A (formed, or two spare *)
(* parts), maybe a prey, the snake ticker and a painter                     *)

SnakePalette == {"Empty", "Snake1", "Frog"}

SnakeCell(segment) ==
    [CellEmpty(0) EXCEPT !.animal = [kind |-> "Snake", species |-> "A",
                                     segment |-> segment]]

FormedSnake ==
    [p \in GridPoints(2) |->
        IF p = Pt(0, 0) THEN SnakeCell(HeadSegment(0, Pt(1, 0)))
        ELSE IF p = Pt(1, 0) THEN SnakeCell(BodySegment(Pt(1, 1)))
        ELSE IF p = Pt(1, 1) THEN SnakeCell(BodySegment(None))
        ELSE CellEmpty(0)]

ShortSnake ==
    [p \in GridPoints(2) |->
        IF p = Pt(0, 0) THEN SnakeCell(HeadSegment(0, Pt(1, 0)))
        ELSE IF p = Pt(1, 0) THEN SnakeCell(BodySegment(None))
        ELSE IF p = Pt(1, 1) THEN [CellEmpty(0) EXCEPT !.animal = SimpleAnimalDefault(0)]
        ELSE CellEmpty(0)]

SpareSnake ==
    [p \in GridPoints(2) |->
        IF p \in {Pt(0, 0), Pt(1, 0)} THEN SnakeCell(None) ELSE CellEmpty(0)]

InitSnake ==
    /\ config = [ConfigDefault EXCEPT !.map_size = 2]
    /\ cells \in {FormedSnake, ShortSnake, SpareSnake}
    /\ InitTasks

PaintSnake ==
    \E p \in GridPoints(size), c \in SnakePalette :
        set_cell_color(p.x, p.y, as_index(c))

NextSnake ==
    \/ InstantTick
    \/ PaintSnake
    \/ SnakePlan
    \/ CommitAcquire("snake")
    \/ SnakeApply
    \/ CommitEnd("snake")

SpecSnake == InitSnake /\ [][NextSnake]_vars

---------------------------------------------------------------------------
(* C3: in the state a snake-ticker commit leaves (a commit that applied at  *)
(* least one Move, Eat, Death or Starve), whatever paints came in between   *)
(* (also between its plan and its commit), the next_segment chain of every  *)
(* Head visits only Snake cells of the head's species, all Bodies, and ends *)
(* at one whose next_segment is None within max_size steps.                 *)

RECURSIVE ChainEnds(_, _, _)
ChainEnds(p, species, steps) ==
    /\ steps > 0
    /\ p \in DOMAIN cells
    /\ is_body(cells[p])
    /\ cells[p].animal.species = species
    /\ \/ next_segment(cells[p]) = None
       \/ ChainEnds(next_segment(cells[p]), species, steps - 1)

HeadChainsEnd ==
    \A h \in DOMAIN cells :
        IsHead(cells[h]) =>
            /\ next_segment(cells[h]) # None
            /\ ChainEnds(next_segment(cells[h]), cells[h].animal.species,
                         config.snake_max_size[cells[h].animal.species])

C3_ChainsAfterCommit ==
    [][(pc["snake"] = "applying" /\ pc'["snake"] = "sleep" /\ changed_map["snake"])
          => HeadChainsEnd']_vars

---------------------------------------------------------------------------
(* The whole program: the five tickers, the painter and a long-poll reader *)

WorldPalette == {"Ant", "Frog"}

(* a snake of two segments, and water on the one higher cell; the painter  *)
(* brings the other animals                                                *)
WorldCells ==
    [p \in GridPoints(2) |->
        IF p = Pt(0, 0) THEN SnakeCell(HeadSegment(0, Pt(1, 0)))
        ELSE IF p = Pt(1, 0) THEN SnakeCell(BodySegment(None))
        ELSE IF p = Pt(0, 1) THEN CellEmpty(0)
        ELSE [CellEmpty(1) EXCEPT !.water = "Shallow"]]

Init ==
    /\ config = [ConfigDefault EXCEPT !.map_size = 2]
    /\ cells = WorldCells
    /\ InitTasks

PaintWorld ==
    \E p \in GridPoints(size), c \in WorldPalette :
        set_cell_color(p.x, p.y, as_index(c))

TickerNext ==
    \/ AmphibianPlan
    \/ CommitAcquire("amphibian")
    \/ AmphibianApply
    \/ CommitEnd("amphibian")
    \/ InsectPlan
    \/ CommitAcquire("insect")
    \/ InsectApply
    \/ CommitEnd("insect")
    \/ SnakePlan
    \/ CommitAcquire("snake")
    \/ SnakeApply
    \/ CommitEnd("snake")
    \/ Rain
    \/ Evaporate
    \/ WaterFlow

ReaderNext ==
    \E r \in Readers :
        \/ GetMapCall(r)
        \/ GetMapRead(r)
        \/ GetMapCheck(r)
        \/ GetMapAwait(r)
        \/ GetMapWake(r)
        \/ GetMapTimeout(r)
        \/ GetMapReread(r)
        \/ GetMapRespond(r)

Next ==
    \/ PaintWorld
    \/ TickerNext
    \/ ReaderNext

Spec == Init /\ [][Next]_vars

---------------------------------------------------------------------------
(* C4: no task holds the world lock while it is at a suspension point: a    *)
(* ticker in its tick sleep, or a reader about to await or awaiting the     *)
(* change signal, holds neither the write guard nor a read guard.           *)

Suspended(task) ==
    IF task \in Tickers THEN pc[task] \in {"sleep", "evaporate_sleep"}
    ELSE pc[task] \in {"await", "waiting"}

HoldsLock(task) == wlock = task \/ task \in rlock

C4_NoLockAcrossSuspension == \A task \in Tasks : Suspended(task) => ~HoldsLock(task)

(* a reader awaits the signal and two tickers sleep after their section,    *)
(* while a third ticker is inside its write section                         *)
C4_Witness ==
    /\ pc["reader"] = "waiting"
    /\ pc["snake"] = "sleep"
    /\ pc["water_cycle"] = "sleep"
    /\ wlock = "amphibian"

---------------------------------------------------------------------------
(* C5: a snapshot read never observes a partially applied commit: every     *)
(* response is the world as the last completed write section left it, with  *)
(* all of the changes of each batch or paint before it and none of a batch  *)
(* in progress.                                                             *)

C5_SnapshotsAreCommitted ==
    [][\A r \in Readers : response'[r] # response[r] => response'[r] = committed]_vars

(* a reader wants its snapshot while a batch is half applied: the cells     *)
(* already differ from the last committed world                             *)
C5_Witness ==
    /\ pc["reader"] \in {"read", "reread"}
    /\ wlock \in Tickers
    /\ Shown # committed

---------------------------------------------------------------------------
(* SpecStarve: a hungry frog, the amphibian ticker, the painter, the clock  *)
(* and a long-poll reader                                                   *)

StarveCells ==
    [p \in GridPoints(2) |->
        IF p = Pt(0, 0) THEN [CellEmpty(0) EXCEPT !.animal = SimpleAnimalDefault(0)]
        ELSE CellEmpty(0)]

InitStarve ==
    /\ config = [ConfigDefault EXCEPT !.map_size = 2]
    /\ cells = StarveCells
    /\ InitTasks

NextStarve ==
    \/ InstantTick
    \/ PaintWorld
    \/ AmphibianPlan
    \/ CommitAcquire("amphibian")
    \/ AmphibianApply
    \/ CommitEnd("amphibian")
    \/ ReaderNext

SpecStarve == InitStarve /\ [][NextStarve]_vars

(* C1: two snapshot reads that return the same version_id return the same   *)
(* color index for every cell; stated for one reader's consecutive          *)
(* responses.                                                               *)
C1_SameVersionSameContents ==
    [][\A r \in Readers :
          (response[r] # NoResponse /\ response'[r].version_id = response[r].version_id)
              => response'[r].cell_color_indexes = response[r].cell_color_indexes]_vars

---------------------------------------------------------------------------
(* SpecClock: the painter, the snake ticker and the water flow under a wall *)
(* clock that may be set back                                               *)

NextClock ==
    \/ WallStepBack
    \/ PaintWorld
    \/ SnakePlan
    \/ CommitAcquire("snake")
    \/ SnakeApply
    \/ CommitEnd("snake")
    \/ WaterFlow

SpecClock == Init /\ [][NextClock]_vars

(* C2: every notify_update sets version_id to a value strictly greater than *)
(* every version_id the world had before.                                   *)
C2_VersionStrictlyIncreases ==
    [][notifies' # notifies => version_id' > max_version]_vars

---------------------------------------------------------------------------
(* SpecLive: a long-poll reader among writers, under fair scheduling: the   *)
(* runtime keeps polling a task that can run, a timer that was armed        *)
(* expires, a writer inside its section leaves it, and a reader that finds  *)
(* the lock free again and again gets its guard.                            *)

NextLive ==
    \/ PaintWorld
    \/ SnakePlan
    \/ CommitAcquire("snake")
    \/ SnakeApply
    \/ CommitEnd("snake")
    \/ Rain
    \/ Evaporate
    \/ WaterFlow
    \/ ReaderNext

FairLive ==
    /\ WF_vars(SnakeApply)
    /\ WF_vars(CommitEnd("snake"))
    /\ \A r \in Readers :
          /\ SF_vars(GetMapRead(r))
          /\ WF_vars(GetMapCheck(r))
          /\ WF_vars(GetMapAwait(r))
          /\ WF_vars(GetMapTimeout(r))
          /\ SF_vars(GetMapReread(r))
          /\ WF_vars(GetMapRespond(r))

SpecLive == Init /\ [][NextLive]_vars /\ FairLive

(* C8: with last_version_id equal to the current version the read drops its *)
(* guard and waits; with none or another it answers the current snapshot at *)
(* once; the answer after the wait is built under a read guard; and every   *)
(* request that entered the handler gets its answer.                        *)
C8_LongPollReturns ==
    /\ [][\A r \in Readers :
            /\ (pc[r] = "check" /\ pc'[r] # "check") =>
                  IF request[r] = {version_id}
                  THEN pc'[r] = "await" /\ r \notin rlock' /\ response'[r] = response[r]
                  ELSE pc'[r] = "done" /\ response'[r] = Shown
            /\ (pc[r] = "respond" /\ pc'[r] # "respond") =>
                  r \in rlock /\ pc'[r] = "done" /\ response'[r] = Shown]_vars
    /\ \A r \in Readers : (pc[r] = "read") ~> (pc[r] = "done")

(* a request that named the current version got, after its wait, a snapshot *)
(* of that same version                                                     *)
C8_Witness ==
    /\ pc["reader"] = "done"
    /\ request["reader"] = {response["reader"].version_id}
    /\ response["reader"].version_id = version_id

---------------------------------------------------------------------------
(* SpecRepaint: one cell in any state of its layers, painted twice *)

MaxRepaints == 2

Repaint ==
    /\ paints < MaxRepaints
    /\ \E x \in 0..size, y \in 0..size, ci \in 0..Len(ALL_COLORS) :
          set_cell_color_request(x, y, ci)

NextRepaint == Repaint

SpecRepaint == InitPaint /\ [][NextRepaint]_vars

(* C11: painting Empty and then ShallowWater on the same cell, with no      *)
(* other write to it in between, yields a cell whose color is ShallowWater, *)
(* whatever animal, water and grass the cell held before.                   *)
C11_EmptyThenShallowWater ==
    [][(/\ paint_request # None
        /\ paint_status = OkStatus
        /\ paint_request.color_index = as_index("Empty")
        /\ PaintedNow
        /\ paint_request'.point = paint_request.point
        /\ paint_request'.color_index = as_index("ShallowWater"))
          => color(cells'[paint_request.point]) = "ShallowWater"]_vars

(* the second paint was ShallowWater and neither animal nor grass is left *)
C11_Witness ==
    /\ paints = 2
    /\ paint_status = OkStatus
    /\ paint_request # None
    /\ paint_request.color_index = as_index("ShallowWater")
    /\ cells[paint_request.point] = [CellEmpty(0) EXCEPT !.water = "Shallow"]

---------------------------------------------------------------------------
(* SpecColor: one cell in any state of its layers and at any height, shown  *)
(* to a reader before and after a paint                                     *)

MaxHeight == 2

InitColor ==
    /\ config = [ConfigDefault EXCEPT !.map_size = 1]
    /\ \E a \in AnimalSamples, w \in {"Empty", "Shallow", "Deep"},
          g \in {"Empty", "Dry", "Low", "High"}, h \in 0..MaxHeight :
          cells = [p \in GridPoints(1) |->
                      [animal |-> a, water |-> w, grass |-> g, height |-> h]]
    /\ InitTasks

NextColor ==
    \/ PaintAny
    \/ ReaderNext

SpecColor == InitColor /\ [][NextColor]_vars

(* the color each layer stands for on its own *)
AnimalLayerColor(animal) ==
    CASE animal.kind = "Insect" -> "Ant"
      [] animal.kind = "Amphibian" -> "Frog"
      [] animal.kind = "Snake" /\ animal.species = "A" -> "Snake1"
      [] animal.kind = "Snake" /\ animal.species = "B" -> "Snake2"
      [] animal.kind = "Snake" /\ animal.species = "C" -> "Snake3"
      [] animal.kind = "Dead" -> "DeadMatter"

WaterLayerColor(water) == IF water = "Shallow" THEN "ShallowWater" ELSE "DeepWater"

GrassLayerColor(grass) ==
    CASE grass = "Dry" -> "DryGrass"
      [] grass = "Low" -> "LowGrass"
      [] grass = "High" -> "HighGrass"
      [] grass = "Empty" -> "Empty"

(* Animal > Water > Grass, a function of the three layers only *)
ByPrecedence(animal, water, grass) ==
    IF animal # EmptyAnimal THEN AnimalLayerColor(animal)
    ELSE IF water # "Empty" THEN WaterLayerColor(water)
    ELSE GrassLayerColor(grass)

(* C12: color() is a total function of the animal, water and grass layers   *)
(* with precedence Animal > Water > Grass: every snapshot a reader is given *)
(* shows each cell as the color its animal layer stands for when that layer *)
(* is not Empty, else the color of its water layer when that is not Empty,  *)
(* else the color of its grass layer, Empty when all three are Empty; the   *)
(* color is a palette entry, and it is the same at every height.            *)
C12_ColorByPrecedence ==
    [][\A r \in Readers :
          response'[r] # response[r] =>
              \A p \in DOMAIN cells :
                  LET cell == cells[p]
                  IN  /\ response'[r].cell_color_indexes[p]
                            = as_index(ByPrecedence(cell.animal, cell.water, cell.grass))
                      /\ color(cell) \in SeqToSet(ALL_COLORS)
                      /\ \A h \in 0..MaxHeight :
                            color([cell EXCEPT !.height = h]) = color(cell)
    ]_vars

(* a reader has been shown a raised cell holding an animal over water and grass *)
C12_Witness ==
    \E r \in Readers, p \in DOMAIN cells :
        /\ response[r] # NoResponse
        /\ cells[p].height = MaxHeight
        /\ cells[p].animal.kind = "Dead"
        /\ cells[p].water = "Deep"
        /\ cells[p].grass = "High"
        /\ response[r].cell_color_indexes[p] = as_index("DeadMatter")

---------------------------------------------------------------------------
(* SpecHeight: the five tickers and a painter of every layer, on the world  *)
(* with one raised cell                                                     *)

HeightPalette == {"Empty", "Ant", "Frog", "ShallowWater", "LowGrass"}

PaintHeight ==
    \E p \in GridPoints(size), c \in HeightPalette :
        set_cell_color(p.x, p.y, as_index(c))

NextHeight ==
    \/ PaintHeight
    \/ TickerNext

SpecHeight == Init /\ [][NextHeight]_vars

(* C13: after bootstrap no operation changes a cell's height: every step of *)
(* a ticker's commit, of the rain, the evaporation and the water flow, and  *)
(* every paint, painting Empty included, leaves the height of every cell    *)
(* as it was.                                                               *)
C13_HeightNeverChanges ==
    [][\A p \in DOMAIN cells : cells'[p].height = cells[p].height]_vars

(* the raised cell has been painted Empty, and a ticker has changed the map *)
C13_Witness ==
    /\ wall = MaxWall
    /\ paint_status = OkStatus
    /\ paint_request # None
    /\ paint_request.color_index = as_index("Empty")
    /\ paint_request.point = Pt(1, 1)
    /\ cells[Pt(1, 1)] = CellEmpty(1)

---------------------------------------------------------------------------
(* SpecCircle: maps of every size up to MaxMapSize, every radius up to      *)
(* MaxRadius, a frog at any cell searching its destination, and the rain    *)

MaxMapSize == 3

MaxRadius == 3

InitCircle ==
    /\ \E n \in 1..MaxMapSize, r \in 0..MaxRadius :
          /\ config = [ConfigDefault EXCEPT !.map_size = n,
                                            !.amphibian_destination_radius = r,
                                            !.water_max_rain_radius = r,
                                            !.water_in_atmosphere = 2]
          /\ \E center \in GridPoints(n) :
                cells = [p \in GridPoints(n) |->
                            IF p = center
                            THEN [CellEmpty(0) EXCEPT !.animal = SimpleAnimalDefault(0)]
                            ELSE CellEmpty(0)]
    /\ InitTasks

NextCircle ==
    \/ AmphibianPlan
    \/ CommitAcquire("amphibian")
    \/ AmphibianApply
    \/ CommitEnd("amphibian")
    \/ Rain

SpecCircle == InitCircle /\ [][NextCircle]_vars

NoDuplicates(s) == \A i, j \in 1..Len(s) : s[i] = s[j] => i = j

WithinDistance(center, radius) ==
    {q \in GridPoints(size) : distance(center, q) <= radius}

AtDistance(center, radius) ==
    {q \in GridPoints(size) : distance(center, q) = radius}

(* C14: for every center of the map, corners and edges included, and every  *)
(* radius from 0 to the configured one, circle yields exactly the points of *)
(* the map at taxicab distance <= radius, and circumference and the circle  *)
(* of the water cycle yield exactly the points of the map at taxicab        *)
(* distance = radius; each yields a point once, in a finite sequence, and   *)
(* at radius 0 yields the center only.                                      *)
C14_CirclesExact ==
    \A center \in GridPoints(size) :
        \A radius \in 0..config.amphibian_destination_radius :
            LET disk == circle(center, radius, size)
                ring == circumference(center, radius, size)
                rain == water_cycle_circle(center.x, center.y, radius, size)
            IN  /\ SeqToSet(disk) = WithinDistance(center, radius)
                /\ SeqToSet(ring) = AtDistance(center, radius)
                /\ {Pt(c[1], c[2]) : c \in SeqToSet(rain)} = AtDistance(center, radius)
                /\ NoDuplicates(disk)
                /\ NoDuplicates(ring)
                /\ NoDuplicates(rain)
                /\ Len(disk) <= size * size
                /\ radius = 0 =>
                      /\ disk = <<center>>
                      /\ ring = <<center>>
                      /\ rain = <<<<center.x, center.y>>>>

(* a frog at the corner of the largest map has been given a destination on  *)
(* the circumference of radius 2, and rain has fallen away from its center   *)
C14_Witness ==
    /\ size = MaxMapSize
    /\ config.amphibian_destination_radius = 2
    /\ cells[Pt(0, 0)].animal.kind = "Amphibian"
    /\ cells[Pt(0, 0)].animal.destination \in AtDistance(Pt(0, 0), 2)
    /\ Cardinality({q \in DOMAIN cells : cells[q].water # "Empty"}) = 2

---------------------------------------------------------------------------
(* SpecFlow: the 3x3 grid of heights [[9,9,9],[9,9,9],[0,0,0]], row by row, *)
(* with Shallow water on any of its cells, and the water-flow ticker. The   *)
(* cell (i, j) of the array, row i and column j, is the point x = j, y = i. *)

FlowHeights == <<<<9, 9, 9>>, <<9, 9, 9>>, <<0, 0, 0>>>>

FlowSize == Len(FlowHeights)

FlowCells(wet) ==
    [p \in GridPoints(FlowSize) |->
        [CellEmpty(FlowHeights[p.y + 1][p.x + 1])
            EXCEPT !.water = IF p \in wet THEN "Shallow" ELSE "Empty"]]

InitFlow ==
    /\ config = [ConfigDefault EXCEPT !.map_size = FlowSize,
                                      !.water_flow_max_radius = 1,
                                      !.water_thickness = 1]
    /\ \E wet \in SUBSET GridPoints(FlowSize) : cells = FlowCells(wet)
    /\ InitTasks

NextFlow == WaterFlow

SpecFlow == InitFlow /\ [][NextFlow]_vars

(* the cells (0,1) and (1,1) of the array *)
TwoUnits == {Pt(1, 0), Pt(1, 1)}

Wet(cs) == {p \in DOMAIN cs : cs[p].water # "Empty"}

---------------------------------------------------------------------------
(* SpecNewSnake: a 3 x 3 world with min_size spare parts of species A in a  *)
(* row or a column, maybe one more spare part of species A or B somewhere   *)
(* else, and the snake ticker alone                                         *)

NewSnakeSize == 3

Line(start, direction) ==
    {PAdd(start, PMul(direction, k)) : k \in 0..(config.snake_min_size - 1)}

Lines ==
    {L \in {Line(start, DIRECTIONS[i]) : start \in GridPoints(size), i \in 1..4} :
        L \subseteq GridPoints(size)}

Adjacent(p, q) == distance(p, q) = 1

InitNewSnake ==
    /\ config = [ConfigDefault EXCEPT !.map_size = NewSnakeSize,
                                      !.snake_min_size = NewSnakeSize]
    /\ \E L \in Lines :
          \E extra \in {None} \cup (GridPoints(size) \ L), species \in {"A", "B"} :
              cells = [p \in GridPoints(size) |->
                          IF p \in L THEN [CellEmpty(0) EXCEPT !.animal = SnakeNew("A")]
                          ELSE IF p = extra
                          THEN [CellEmpty(0) EXCEPT !.animal = SnakeNew(species)]
                          ELSE CellEmpty(0)]
    /\ InitTasks

NextNewSnake ==
    \/ InstantTick
    \/ SnakePlan
    \/ CommitAcquire("snake")
    \/ SnakeApply
    \/ CommitEnd("snake")

SpecNewSnake == InitNewSnake /\ [][NextNewSnake]_vars

(* the spare parts of the species that lie in a line of min_size with no    *)
(* other spare part of the species next to them, if there are such          *)
SpareLines(species) ==
    {L \in Lines :
        /\ L \subseteq SpareParts(species)
        /\ \A q \in SpareParts(species) \ L : \A p \in L : ~Adjacent(p, q)}

NewSnakesOver(batch, L) ==
    {i \in 1..Len(batch) :
        /\ batch[i].kind = "NewSnake"
        /\ SeqToSet(batch[i].points) \cap L # {}}

(* the points run from one end of the line to the other *)
RunsAlong(points, L) ==
    /\ Len(points) = Cardinality(L)
    /\ SeqToSet(points) = L
    /\ \A i \in 1..(Len(points) - 1) : Adjacent(points[i], points[i + 1])
    /\ distance(points[1], points[Len(points)]) = Len(points) - 1

(* C16: when exactly min_size spare parts of one species lie in a straight  *)
(* line and no other spare part of the species is adjacent to them, the     *)
(* snake tick plans exactly one NewSnake over them, whose points run from   *)
(* one end of the line to the other, and its commit makes the first point   *)
(* Head with last_feeding = now and every other point Body, each with       *)
(* next_segment the next point toward the other end, None at the other end. *)
C16_LineBecomesSnake ==
    [][\A species \in {"A", "B"} : \A L \in SpareLines(species) :
          /\ (pc["snake"] \in {"start", "sleep"} /\ pc'["snake"] = "apply")
                => /\ Cardinality(NewSnakesOver(changes'["snake"], L)) = 1
                   /\ \A i \in NewSnakesOver(changes'["snake"], L) :
                         RunsAlong(changes'["snake"][i].points, L)
          /\ (/\ pc["snake"] = "applying"
              /\ changes["snake"] # <<>>
              /\ changes'["snake"] = Tail(changes["snake"])
              /\ NewSnakesOver(changes["snake"], L) = {1})
                => LET points == changes["snake"][1].points
                       n == Len(points)
                   IN  /\ cells'[points[1]].animal.segment
                             = HeadSegment(now, points[2])
                       /\ \A i \in 2..(n - 1) :
                             cells'[points[i]].animal.segment
                                = BodySegment(points[i + 1])
                       /\ cells'[points[n]].animal.segment = BodySegment(None)
                       /\ \A q \in DOMAIN cells \ L : cells'[q] = cells[q]
    ]_vars

(* a snake formed of a column at a later instant, next to a spare part of   *)
(* the other species                                                        *)
C16_Witness ==
    /\ now = 1
    /\ pc["snake"] = "applying"
    /\ changes["snake"] = <<>>
    /\ cells[Pt(1, 0)].animal = [kind |-> "Snake", species |-> "A",
                                 segment |-> HeadSegment(1, Pt(1, 1))]
    /\ cells[Pt(1, 1)].animal = [kind |-> "Snake", species |-> "A",
                                 segment |-> BodySegment(Pt(1, 2))]
    /\ cells[Pt(1, 2)].animal = [kind |-> "Snake", species |-> "A",
                                 segment |-> BodySegment(None)]
    /\ cells[Pt(0, 1)].animal = SnakeNew("B")

---------------------------------------------------------------------------
(* SpecHunt: a 3 x 3 world with a snake of two segments of species A, which *)
(* may grow to three, one frog that stays where it is, and the snake ticker *)

HuntSize == 3

InitHunt ==
    /\ config = [ConfigDefault EXCEPT !.map_size = HuntSize]
    /\ \E head \in GridPoints(HuntSize) :
          \E body \in {q \in GridPoints(HuntSize) : Adjacent(head, q)} :
              \E prey \in GridPoints(HuntSize) \ {head, body} :
                  cells = [p \in GridPoints(HuntSize) |->
                              IF p = head THEN SnakeCell(HeadSegment(0, body))
                              ELSE IF p = body THEN SnakeCell(BodySegment(None))
                              ELSE IF p = prey
                              THEN [CellEmpty(0) EXCEPT !.animal = SimpleAnimalDefault(0)]
                              ELSE CellEmpty(0)]
    /\ InitTasks

NextHunt ==
    \/ SnakePlan
    \/ CommitAcquire("snake")
    \/ SnakeApply
    \/ CommitEnd("snake")

SpecHunt == InitHunt /\ [][NextHunt]_vars

(* the snake ticker applies the change at the head of its batch, and the    *)
(* change passes its checks                                                 *)
SnakeCommits(kind) ==
    /\ pc["snake"] = "applying"
    /\ changes["snake"] # <<>>
    /\ changes["snake"][1].kind = kind
    /\ changes'["snake"] = Tail(changes["snake"])
    /\ cells' # cells

(* C17: when a snake shorter than max_size commits an Eat, or a Move        *)
(* planned toward the closest uneaten amphibian, the new head cell is       *)
(* strictly closer in taxicab distance to that prey than the old head cell. *)
C17_HeadGetsCloser ==
    [][LET change == changes["snake"][1]
       IN  /\ SnakeCommits("Eat")
                => distance(change.new_head, change.food)
                      < distance(change.head, change.food)
           /\ (/\ SnakeCommits("Move")
               /\ Len(change.snake)
                     < config.snake_max_size[cells[change.snake[1]].animal.species]
               /\ UneatenPreys # {})
                => \A prey \in min_set_by_key(UneatenPreys,
                                              LAMBDA q : distance(q, change.snake[1])) :
                      distance(change.target, prey) < distance(change.snake[1], prey)
    ]_vars

---------------------------------------------------------------------------
(* SpecFamine: a 3 x 3 world with a snake of three segments that may grow   *)
(* to four, a frog within its eating radius, a starvation delay of 0 or 1,  *)
(* the clock, the snake ticker and a painter                                *)

FamineSize == 3

FamineSnake == <<Pt(0, 0), Pt(1, 0), Pt(2, 0)>>

FaminePalette == {"Empty", "Frog"}

InitFamine ==
    /\ \E delay \in {0, 1} :
          config = [ConfigDefault EXCEPT !.map_size = FamineSize,
                                        !.snake_starvation_delay = delay,
                                        !.snake_eating_radius = 2,
                                        !.snake_max_size = [sp \in {"A", "B", "C"} |-> 4]]
    /\ cells = [p \in GridPoints(FamineSize) |->
                  IF p = FamineSnake[1] THEN SnakeCell(HeadSegment(0, FamineSnake[2]))
                  ELSE IF p = FamineSnake[2] THEN SnakeCell(BodySegment(FamineSnake[3]))
                  ELSE IF p = FamineSnake[3] THEN SnakeCell(BodySegment(None))
                  ELSE IF p = Pt(1, 1)
                  THEN [CellEmpty(0) EXCEPT !.animal = SimpleAnimalDefault(0)]
                  ELSE CellEmpty(0)]
    /\ InitTasks

PaintFamine ==
    \E p \in GridPoints(size), c \in FaminePalette :
        set_cell_color(p.x, p.y, as_index(c))

NextFamine ==
    \/ InstantTick
    \/ PaintFamine
    \/ SnakePlan
    \/ CommitAcquire("snake")
    \/ SnakeApply
    \/ CommitEnd("snake")

SpecFamine == InitFamine /\ [][NextFamine]_vars

(* the heads of the well-formed snakes whose last feeding is older than the *)
(* starvation delay                                                         *)
StarvingHeads ==
    {h \in DOMAIN cells :
        /\ IsHead(cells[h])
        /\ extract_snake(config.snake_max_size[cells[h].animal.species], h,
                         cells[h].animal.segment.next_segment,
                         Bodies(cells[h].animal.species)).snake # None
        /\ Elapsed(now, cells[h].animal.segment.last_feeding)
              > config.snake_starvation_delay}

SnakeOf(h) ==
    extract_snake(config.snake_max_size[cells[h].animal.species], h,
                  cells[h].animal.segment.next_segment,
                  Bodies(cells[h].animal.species)).snake

(* C18: a well-formed snake whose head's last_feeding is older than the     *)
(* starvation delay when the tick plans is planned as Starve over all its   *)
(* points and as no Move and no Eat, and the commit of a Starve turns each  *)
(* of its points that still holds a snake into Dead and changes no other    *)
(* cell; with a starvation delay of 0 this makes all three cells of a       *)
(* snake of three segments Dead.                                            *)
C18_StarvingSnakeDies ==
    [][/\ (pc["snake"] \in {"start", "sleep"} /\ pc'["snake"] = "apply")
            => \A h \in StarvingHeads :
                  LET batch == changes'["snake"]
                  IN  /\ \E i \in 1..Len(batch) :
                            batch[i] = [kind |-> "Starve", points |-> SnakeOf(h)]
                      /\ \A i \in 1..Len(batch) :
                            /\ batch[i].kind = "Move" => batch[i].snake[1] # h
                            /\ batch[i].kind = "Eat" => batch[i].head # h
       /\ (/\ pc["snake"] = "applying"
           /\ changes["snake"] # <<>>
           /\ changes'["snake"] = Tail(changes["snake"])
           /\ changes["snake"][1].kind = "Starve")
            => LET points == SeqToSet(changes["snake"][1].points)
               IN  \A p \in DOMAIN cells :
                       cells'[p] = IF p \in points /\ IsSnake(cells[p])
                                   THEN [cells[p] EXCEPT !.animal = DeadAnimal]
                                   ELSE cells[p]
    ]_vars

(* with a starvation delay of 0, the three cells of the snake are Dead when *)
(* its first tick ends, no paint having come in                             *)
C18_Witness ==
    /\ config.snake_starvation_delay = 0
    /\ paints = 0
    /\ pc["snake"] = "sleep"
    /\ \A i \in 1..3 : cells[FamineSnake[i]].animal = DeadAnimal

---------------------------------------------------------------------------
(* SpecMate: a 3 x 3 world with two frogs, or two ants, in SearchPartner on *)
(* neighbouring cells, and the two tickers; nothing to eat and no clock     *)

MateSize == 3

InsectIn(state) == [InsectDefault EXCEPT !.state = state]

InitMate ==
    /\ config = [ConfigDefault EXCEPT !.map_size = MateSize]
    /\ \E first \in GridPoints(MateSize) :
          \E second \in {q \in GridPoints(MateSize) : Adjacent(first, q)} :
              \E parent \in {AmphibianIn("SearchPartner"), InsectIn("SearchPartner")} :
                  cells = [p \in GridPoints(MateSize) |->
                              IF p \in {first, second}
                              THEN [CellEmpty(0) EXCEPT !.animal = parent]
                              ELSE CellEmpty(0)]
    /\ InitTasks

NextMate ==
    \/ AmphibianPlan
    \/ CommitAcquire("amphibian")
    \/ AmphibianApply
    \/ CommitEnd("amphibian")
    \/ InsectPlan
    \/ CommitAcquire("insect")
    \/ InsectApply
    \/ CommitEnd("insect")

SpecMate == InitMate /\ [][NextMate]_vars

KindOf(t) == IF t = "amphibian" THEN "Amphibian" ELSE "Insect"

Animals(cs, kind) == {p \in DOMAIN cs : cs[p].animal.kind = kind}

Searching(cs, kind) == {p \in Animals(cs, kind) : cs[p].animal.state = "SearchPartner"}

NewbornOf(kind) == IF kind = "Amphibian" THEN SimpleAnimalDefault(now) ELSE InsectDefault

(* C19: when two animals of one species in SearchPartner, within the mating *)
(* radius of each other, are all there is of the species, the tick plans a  *)
(* Mate for each of them with the other as partner; a Mate that commits     *)
(* turns its two parents from SearchPartner to SearchFood and puts one      *)
(* newborn in its default state into a cell of the mating disk whose animal *)
(* layer was Empty, and changes nothing else; and when the tick ends        *)
(* exactly one of the two Mates has committed: there are three animals of   *)
(* the species, none in SearchPartner.                                      *)
C19_OneMatePerPair ==
    [][\A t \in {"amphibian", "insect"} :
          LET kind == KindOf(t)
              radius == IF t = "amphibian" THEN config.amphibian_mating_radius
                        ELSE config.insect_mating_radius
          IN  /\ (/\ pc[t] \in {"start", "sleep"}
                  /\ pc'[t] = "apply"
                  /\ Cardinality(Searching(cells, kind)) = 2)
                    => /\ Len(changes'[t]) = 2
                       /\ \A i \in 1..2 :
                             /\ changes'[t][i].change.kind = "Mate"
                             /\ {changes'[t][i].point, changes'[t][i].change.partner}
                                   = Searching(cells, kind)
              /\ (/\ pc[t] = "applying"
                  /\ changes[t] # <<>>
                  /\ changes[t][1].change.kind = "Mate"
                  /\ cells' # cells)
                    => LET point == changes[t][1].point
                           partner == changes[t][1].change.partner
                           new_born == changes[t][1].change.new_born
                       IN  /\ {point, partner} \subseteq Searching(cells, kind)
                           /\ cells[new_born].animal = EmptyAnimal
                           /\ distance(point, new_born) <= radius
                           /\ cells' = [cells EXCEPT
                                          ![point].animal.state = "SearchFood",
                                          ![partner].animal.state = "SearchFood",
                                          ![new_born].animal = NewbornOf(kind)]
                           /\ Cardinality(Animals(cells', kind))
                                 = Cardinality(Animals(cells, kind)) + 1
              /\ (pc[t] = "applying" /\ pc'[t] = "sleep" /\ Animals(cells, kind) # {})
                    => /\ Cardinality(Animals(cells', kind)) = 3
                       /\ Searching(cells', kind) = {}
    ]_vars

(* the first amphibian tick has ended: the two parents are in SearchFood    *)
(* and a newborn sits next to the first one                                 *)
C19_Witness ==
    /\ pc["amphibian"] = "sleep"
    /\ wall = 2
    /\ Animals(cells, "Amphibian") = {Pt(0, 0), Pt(1, 0), Pt(0, 1)}
    /\ \A p \in Animals(cells, "Amphibian") : cells[p].animal.state = "SearchFood"

---------------------------------------------------------------------------
(* the rules of determine_changes, read off the cells *)

Starving(a) == Elapsed(now, a.last_feeding) > config.amphibian_starvation_delay

FoodNear(p) ==
    {q \in DOMAIN cells : /\ distance(p, q) <= config.amphibian_eating_radius
                          /\ cells[q].animal.kind = "Insect"}

GoalReached(p, a) ==
    CASE a.state = "SearchFood" -> FoodNear(p) # {}
      [] a.state = "SearchMatingGround" ->
            \E q \in DOMAIN cells : distance(p, q) <= 1 /\ cells[q].water # "Empty"
      [] a.state = "SearchPartner" ->
            /\ \E q \in DOMAIN cells \ {p} :
                  /\ distance(p, q) <= config.amphibian_mating_radius
                  /\ cells[q].animal.kind = "Amphibian"
                  /\ cells[q].animal.state = "SearchPartner"
            /\ \E q \in DOMAIN cells :
                  /\ distance(p, q) <= config.amphibian_mating_radius
                  /\ cells[q].animal = EmptyAnimal

GoalChange(p, a, c) ==
    CASE a.state = "SearchFood" -> c.kind = "Eat" /\ c.target \in FoodNear(p)
      [] a.state = "SearchMatingGround" -> c.kind = "SearchPartner"
      [] a.state = "SearchPartner" -> c.kind = "Mate"

CanWalk(p, a) ==
    /\ a.destination # None
    /\ a.destination # p
    /\ \E c \in AmphibianWalkCandidates(p, a.direction) : IsFree(c.target)

(* C20: each amphibian tick plans exactly one change per amphibian, by the  *)
(* first rule that applies in the order Starvation, Goal reached, Walk,     *)
(* Retarget: Starve when the last feeding is older than the starvation      *)
(* delay; else Eat of a food cell within the eating radius (SearchFood),    *)
(* SearchPartner next to a mating ground (SearchMatingGround) or Mate with  *)
(* a partner and a free cell in the mating disk (SearchPartner); else       *)
(* MoveTo when a destination other than the own cell is set and a walk      *)
(* candidate is free; else a new destination or the fallback to             *)
(* SearchMatingGround. An Eat committed on a frog still in SearchFood and a *)
(* cell still holding food leaves the food cell Animal-Empty and the frog   *)
(* in SearchMatingGround, with last_feeding the instant apply_changes read  *)
(* and no destination, and changes nothing else.                            *)
C20_FirstRuleApplies ==
    [][LET t == "amphibian"
           frogs == Animals(cells, "Amphibian")
           batch == changes'[t]
       IN  /\ (pc[t] \in {"start", "sleep"} /\ pc'[t] = "apply")
                => /\ Len(batch) = Cardinality(frogs)
                   /\ {batch[i].point : i \in 1..Len(batch)} = frogs
                   /\ \A i \in 1..Len(batch) :
                         LET p == batch[i].point
                             a == cells[p].animal
                             c == batch[i].change
                         IN  IF Starving(a) THEN c.kind = "Starve"
                             ELSE IF GoalReached(p, a) THEN GoalChange(p, a, c)
                             ELSE IF CanWalk(p, a) THEN c.kind = "MoveTo"
                             ELSE c.kind \in {"SetDestination", "SearchMatingGround"}
           /\ (/\ pc[t] = "applying"
               /\ changes[t] # <<>>
               /\ changes'[t] = Tail(changes[t])
               /\ changes[t][1].change.kind = "Eat"
               /\ cells[changes[t][1].point].animal.kind = "Amphibian"
               /\ cells[changes[t][1].point].animal.state = "SearchFood"
               /\ cells[changes[t][1].change.target].animal.kind = "Insect")
                => LET p == changes[t][1].point
                       food == changes[t][1].change.target
                   IN  cells' = [cells EXCEPT
                                   ![food].animal = EmptyAnimal,
                                   ![p].animal.state = "SearchMatingGround",
                                   ![p].animal.last_feeding = tnow[t],
                                   ![p].animal.destination = None]
    ]_vars

(* no paint has come in: the frog has eaten the ant next to it at a later   *)
(* instant and is in SearchMatingGround                                     *)
C20_Witness ==
    /\ paints = 0
    /\ pc["amphibian"] = "sleep"
    /\ cells[Pt(0, 0)].animal.kind = "Amphibian"
    /\ cells[Pt(0, 0)].animal.state = "SearchMatingGround"
    /\ cells[Pt(0, 0)].animal.last_feeding = 1
    /\ cells[Pt(0, 0)].animal.destination = None
    /\ Animals(cells, "Insect") = {}

---------------------------------------------------------------------------
(* The end of a snake commit and notify_update, checked on SpecSnake *)

SnakeApplies ==
    /\ pc["snake"] = "applying"
    /\ changes["snake"] # <<>>
    /\ changes'["snake"] = Tail(changes["snake"])

SnakeTickEnds == pc["snake"] = "applying" /\ pc'["snake"] = "sleep"

(* notify_update was called once: one reading of the clock, one new version *)
NotifiedOnce == wall' = wall + 1 /\ version_id' = wall

NotNotified == wall' = wall /\ version_id' = version_id

---------------------------------------------------------------------------
(* The commit of a Move, checked on SpecSnake *)

(* the first change of the batch is of this kind and is being applied *)
SnakeAppliesA(kind) == SnakeApplies /\ changes["snake"][1].kind = kind

(* the listed cells still hold the snake the plan saw, link by link, and    *)
(* the target is free                                                       *)
MoveStillValid(snake, target) ==
    /\ IsHead(cells[snake[1]])
    /\ next_segment(cells[snake[1]]) = snake[2]
    /\ \A i \in 2..Len(snake) :
          /\ is_body(cells[snake[i]])
          /\ cells[snake[i]].animal.species = cells[snake[1]].animal.species
          /\ next_segment(cells[snake[i]])
                = (IF i < Len(snake) THEN snake[i + 1] ELSE None)
    /\ cells[target].animal = EmptyAnimal

(* the points of the chain that starts at p in the next state, at most      *)
(* steps of them                                                            *)
RECURSIVE ChainAfter(_, _)
ChainAfter(p, steps) ==
    IF steps = 0 \/ p = None \/ ~IsSnake(cells'[p]) THEN <<>>
    ELSE <<p>> \o ChainAfter(next_segment(cells'[p]), steps - 1)

(* C22: a snake Move is committed only if at commit time snake[0] is a Head *)
(* whose next_segment is snake[1], every later listed cell is a Body of the *)
(* head's species whose next_segment is the next listed point, and the      *)
(* target is Animal-Empty. The commit makes the target a Head with the old  *)
(* head's unchanged last_feeding and next_segment = old head, demotes the   *)
(* old head to Body, empties the old tail cell and sets the new tail's      *)
(* next_segment to None, so the snake keeps its species and its length.     *)
C22_MoveKeepsSnake ==
    [][SnakeAppliesA("Move") =>
          LET snake == changes["snake"][1].snake
              target == changes["snake"][1].target
              n == Len(snake)
              old == cells[snake[1]].animal
          IN  IF ~MoveStillValid(snake, target) THEN cells' = cells
              ELSE /\ cells'[target].animal
                        = [kind |-> "Snake", species |-> old.species,
                           segment |-> HeadSegment(old.segment.last_feeding, snake[1])]
                   /\ is_body(cells'[snake[1]])
                   /\ cells'[snake[n]].animal = EmptyAnimal
                   /\ next_segment(cells'[snake[n - 1]]) = None
                   /\ \A i \in 1..(n - 1) :
                         /\ is_body(cells'[snake[i]])
                         /\ cells'[snake[i]].animal.species = old.species
                         /\ i < n - 1 => next_segment(cells'[snake[i]]) = snake[i + 1]
                   /\ ChainAfter(target, n + 1) = <<target>> \o SubSeq(snake, 1, n - 1)
                   /\ \A q \in DOMAIN cells \ ({target} \cup SeqToSet(snake)) :
                         cells'[q] = cells[q]
                   /\ \A q \in DOMAIN cells :
                         /\ cells'[q].water = cells[q].water
                         /\ cells'[q].grass = cells[q].grass
                         /\ cells'[q].height = cells[q].height
    ]_vars

(* the snake of three segments after its Move into the free corner, at a    *)
(* later instant: the head keeps the last_feeding it had                    *)
C22_Witness ==
    /\ now = 1
    /\ pc["snake"] = "applying"
    /\ changes["snake"] = <<>>
    /\ cells[Pt(0, 1)].animal = [kind |-> "Snake", species |-> "A",
                                 segment |-> HeadSegment(0, Pt(0, 0))]
    /\ cells[Pt(0, 0)].animal.segment = BodySegment(Pt(1, 0))
    /\ cells[Pt(1, 0)].animal.segment = BodySegment(None)
    /\ cells[Pt(1, 1)].animal = EmptyAnimal

---------------------------------------------------------------------------
(* SpecEat: a 3 x 3 world with a snake of two segments of species A, whose  *)
(* max_size is two or three, one frog, the snake ticker, the clock, and a   *)
(* painter that puts a frog on a cell, or clears one, but leaves the cells  *)
(* that hold a snake alone                                                  *)

EatSize == 3

EatPalette == {"Empty", "Frog"}

InitEat ==
    /\ \E max_size \in ConfigDefault.snake_min_size..EatSize :
          config = [ConfigDefault EXCEPT !.map_size = EatSize,
                                         !.snake_max_size["A"] = max_size]
    /\ \E head \in GridPoints(EatSize) :
          \E body \in {q \in GridPoints(EatSize) : Adjacent(head, q)} :
              \E prey \in GridPoints(EatSize) \ {head, body} :
                  cells = [p \in GridPoints(EatSize) |->
                              IF p = head THEN SnakeCell(HeadSegment(0, body))
                              ELSE IF p = body THEN SnakeCell(BodySegment(None))
                              ELSE IF p = prey
                              THEN [CellEmpty(0) EXCEPT !.animal = SimpleAnimalDefault(0)]
                              ELSE CellEmpty(0)]
    /\ InitTasks

PaintPrey ==
    \E p \in {q \in GridPoints(size) : ~IsSnake(cells[q])}, c \in EatPalette :
        set_cell_color(p.x, p.y, as_index(c))

NextEat ==
    \/ InstantTick
    \/ PaintPrey
    \/ SnakePlan
    \/ CommitAcquire("snake")
    \/ SnakeApply
    \/ CommitEnd("snake")

SpecEat == InitEat /\ [][NextEat]_vars

(* the points of the chain that starts at p in the grid cs, at most steps   *)
(* of them                                                                  *)
RECURSIVE Chain(_, _, _)
Chain(cs, p, steps) ==
    IF steps = 0 \/ p = None \/ ~IsSnake(cs[p]) THEN <<>>
    ELSE <<p>> \o Chain(cs, next_segment(cs[p]), steps - 1)

ChainLengthsWithin(cs) ==
    \A h \in DOMAIN cs :
        IsHead(cs[h]) =>
            LET n == Len(Chain(cs, h, config.snake_max_size[cs[h].animal.species] + 1))
            IN  /\ n >= config.snake_min_size
                /\ n <= config.snake_max_size[cs[h].animal.species]

EatStillValid(head, new_head, food) ==
    /\ IsHead(cells[head])
    /\ cells[new_head].animal = EmptyAnimal
    /\ cells[food].animal.kind = "Amphibian"

---------------------------------------------------------------------------
(* SpecShared: a 3 x 3 world with two Heads of species A whose next_segment *)
(* is the same Body, which is the tail or is followed by one, the snake     *)
(* ticker and the clock. The program gets there by paints: a Body painted   *)
(* over into a spare part while an Eat is under way leaves a link to it,    *)
(* and a NewSnake then makes it the Body of another Head.                   *)

SharedSize == 3

InitShared ==
    /\ config = [ConfigDefault EXCEPT !.map_size = SharedSize]
    /\ \E body \in GridPoints(SharedSize) :
          \E head1, head2 \in {q \in GridPoints(SharedSize) : Adjacent(body, q)} :
              \E tail \in {None} \cup {q \in GridPoints(SharedSize) \ {head1, head2} :
                                        Adjacent(body, q)} :
                  /\ head1 # head2
                  /\ cells = [p \in GridPoints(SharedSize) |->
                                IF p \in {head1, head2} THEN SnakeCell(HeadSegment(0, body))
                                ELSE IF p = body THEN SnakeCell(BodySegment(tail))
                                ELSE IF p = tail THEN SnakeCell(BodySegment(None))
                                ELSE CellEmpty(0)]
    /\ InitTasks

NextShared ==
    \/ InstantTick
    \/ SnakePlan
    \/ CommitAcquire("snake")
    \/ SnakeApply
    \/ CommitEnd("snake")

SpecShared == InitShared /\ [][NextShared]_vars

SnakePlans == pc["snake"] \in {"start", "sleep"} /\ pc'["snake"] = "apply"

(* the point list of a change that carries an extracted snake *)
SnakeListOf(change) ==
    CASE change.kind = "Move" -> change.snake
      [] change.kind = "Starve" -> change.points
      [] OTHER -> <<>>

(* the changes of the batch that are about the snake of the head h *)
ChangesOfHead(batch, h) ==
    {i \in 1..Len(batch) :
        \/ batch[i].kind \in {"Move", "Starve"} /\ SnakeListOf(batch[i])[1] = h
        \/ batch[i].kind = "Eat" /\ batch[i].head = h
        \/ batch[i].kind = "Death" /\ batch[i].point = h}

(* C24: in one snake tick the point lists of all extracted snakes (and      *)
(* therefore of all Move and Starve changes of that tick) are pairwise      *)
(* disjoint: each Body cell is assigned to at most one head, even when the  *)
(* chains of two heads lead to the same Body cell, and each snake yields at *)
(* most one change.                                                         *)
C24_ExtractedSnakesDisjoint ==
    [][SnakePlans =>
          LET batch == changes'["snake"]
          IN  /\ \A i, j \in 1..Len(batch) :
                    i < j => SeqToSet(SnakeListOf(batch[i]))
                                \cap SeqToSet(SnakeListOf(batch[j])) = {}
              /\ \A i \in 1..Len(batch) : NoDuplicates(SnakeListOf(batch[i]))
              /\ \A i, j \in 1..Len(batch) :
                    (batch[i].kind = "Death" /\ is_body(cells[batch[i].point]))
                        => batch[i].point \notin SeqToSet(SnakeListOf(batch[j]))
              /\ \A h \in DOMAIN cells :
                    IsHead(cells[h]) => Cardinality(ChangesOfHead(batch, h)) <= 1
    ]_vars

(* a plan made while two Heads point to the same Body: one of them got the  *)
(* Body in its list, the other one dies                                     *)
C24_Witness ==
    /\ pc["snake"] = "apply"
    /\ \E h1, h2 \in DOMAIN cells :
          /\ h1 # h2
          /\ IsHead(cells[h1]) /\ IsHead(cells[h2])
          /\ next_segment(cells[h1]) = next_segment(cells[h2])
          /\ \E i, j \in 1..Len(changes["snake"]) :
                /\ changes["snake"][i].kind \in {"Move", "Starve"}
                /\ SnakeListOf(changes["snake"][i])[1] = h1
                /\ SnakeListOf(changes["snake"][i])[2] = next_segment(cells[h1])
                /\ changes["snake"][j] = [kind |-> "Death", point |-> h2]

---------------------------------------------------------------------------
(* SpecOrphan: a 3 x 3 world where a snake needs three segments, with one   *)
(* chain of one to four cells of species A, which starts with a Head or,    *)
(* its Head lost, with a Body, and the snake ticker alone: no paints        *)

OrphanSize == 3

MaxChain == 4

(* the chains of n cells, each next to the one before *)
ChainsOf(n) ==
    {c \in [1..n -> GridPoints(OrphanSize)] :
        /\ \A i, j \in 1..n : i # j => c[i] # c[j]
        /\ \A i \in 1..(n - 1) : Adjacent(c[i], c[i + 1])}

InitOrphan ==
    /\ config = [ConfigDefault EXCEPT !.map_size = OrphanSize,
                                      !.snake_min_size = 3]
    /\ \E n \in 1..MaxChain :
          \E c \in ChainsOf(n), headed \in BOOLEAN :
              cells = [p \in GridPoints(OrphanSize) |->
                          IF \E i \in 1..n : c[i] = p
                          THEN LET i == CHOOSE i \in 1..n : c[i] = p
                                   next == IF i < n THEN c[i + 1] ELSE None
                               IN  SnakeCell(IF i = 1 /\ headed
                                             THEN HeadSegment(0, next)
                                             ELSE BodySegment(next))
                          ELSE CellEmpty(0)]
    /\ InitTasks

NextOrphan ==
    \/ SnakePlan
    \/ CommitAcquire("snake")
    \/ SnakeApply
    \/ CommitEnd("snake")

SpecOrphan == InitOrphan /\ [][NextOrphan]_vars

(* what extract_snake gathers from the head h when it is the first head     *)
(* visited                                                                  *)
ExtractedFrom(h) ==
    extract_walk(<<h>>, next_segment(cells[h]), Bodies(cells[h].animal.species),
                 config.snake_max_size[cells[h].animal.species]).points

ShortHeads ==
    {h \in DOMAIN cells :
        IsHead(cells[h]) /\ Len(ExtractedFrom(h)) < config.snake_min_size}

(* the Bodies no head's extraction takes *)
DanglingBodies ==
    {b \in DOMAIN cells :
        /\ is_body(cells[b])
        /\ \A h \in DOMAIN cells :
              IsHead(cells[h]) => b \notin SeqToSet(ExtractedFrom(h))}

(* the Bodies that are not part of a valid snake *)
OrphanBodies ==
    {b \in DOMAIN cells :
        /\ is_body(cells[b])
        /\ \A h \in DOMAIN cells \ ShortHeads :
              IsHead(cells[h]) => b \notin SeqToSet(ExtractedFrom(h))}

DeathOf(point) == [kind |-> "Death", point |-> point]

(* C25: in each snake tick every Head whose extracted chain is shorter than *)
(* min_size yields Death(head) and every Body cell not consumed by any      *)
(* head's extraction yields Death(cell); at commit such a cell becomes Dead *)
(* if it still holds a snake. Consequently, absent paints, every Body cell  *)
(* that is not part of a valid snake becomes Dead within two snake ticks: a *)
(* tick that starts with such a cell plans a Death and ends with            *)
(* notify_update, and none is left when the second of these ticks ends.     *)
C25_OrphansDieWithinTwoTicks ==
    [][/\ SnakePlans =>
             \A p \in ShortHeads \cup DanglingBodies :
                 Cardinality({i \in 1..Len(changes'["snake"]) :
                                changes'["snake"][i] = DeathOf(p)}) = 1
       /\ SnakeAppliesA("Death") =>
             LET p == changes["snake"][1].point
             IN  cells' = [cells EXCEPT ![p].animal =
                              IF IsSnake(cells[p]) THEN DeadAnimal ELSE @]
       /\ SnakeTickEnds =>
             /\ ShortHeads = {}
             /\ OrphanBodies \subseteq DanglingBodies
             /\ version_id' >= 2 => OrphanBodies = {}
    ]_vars

(* the second tick has ended: the Head of a chain of two died in the first  *)
(* one, its Body in the second                                              *)
C25_Witness ==
    /\ pc["snake"] = "sleep"
    /\ version_id = 2
    /\ Cardinality({p \in DOMAIN cells : cells[p].animal = DeadAnimal}) = 2
    /\ \A p \in DOMAIN cells : ~IsSnake(cells[p])

---------------------------------------------------------------------------
(* SpecPrey: a 3 x 3 world with two snakes of two segments, the first of    *)
(* species A and the second of species A or B, one frog, and the snake      *)
(* ticker alone                                                             *)

PreySize == 3

SnakeCellOf(species, segment) ==
    [CellEmpty(0) EXCEPT !.animal = [kind |-> "Snake", species |-> species,
                                     segment |-> segment]]

InitPrey ==
    /\ config = [ConfigDefault EXCEPT !.map_size = PreySize]
    /\ \E head1, head2, prey \in GridPoints(PreySize), species \in {"A", "B"} :
          \E body1 \in {q \in GridPoints(PreySize) : Adjacent(head1, q)},
             body2 \in {q \in GridPoints(PreySize) : Adjacent(head2, q)} :
              /\ Cardinality({head1, body1, head2, body2, prey}) = 5
              /\ cells = [p \in GridPoints(PreySize) |->
                            IF p = head1 THEN SnakeCellOf("A", HeadSegment(0, body1))
                            ELSE IF p = body1 THEN SnakeCellOf("A", BodySegment(None))
                            ELSE IF p = head2
                            THEN SnakeCellOf(species, HeadSegment(0, body2))
                            ELSE IF p = body2
                            THEN SnakeCellOf(species, BodySegment(None))
                            ELSE IF p = prey
                            THEN [CellEmpty(0) EXCEPT !.animal = SimpleAnimalDefault(0)]
                            ELSE CellEmpty(0)]
    /\ InitTasks

NextPrey ==
    \/ SnakePlan
    \/ CommitAcquire("snake")
    \/ SnakeApply
    \/ CommitEnd("snake")

SpecPrey == InitPrey /\ [][NextPrey]_vars

Eats(batch) == {i \in 1..Len(batch) : batch[i].kind = "Eat"}

(* C26: within one snake tick no amphibian is the food of two Eat changes,  *)
(* across all snakes of all three species, so every Eat committed in that   *)
(* tick removes a different amphibian.                                      *)
C26_OneEatPerPrey ==
    [][/\ SnakePlans =>
             \A i, j \in Eats(changes'["snake"]) :
                 i # j => changes'["snake"][i].food # changes'["snake"][j].food
       /\ (SnakeAppliesA("Eat") /\ cells' # cells) =>
             LET food == changes["snake"][1].food
             IN  /\ cells[food].animal.kind = "Amphibian"
                 /\ cells'[food].animal = EmptyAnimal
                 /\ \A i \in Eats(changes'["snake"]) :
                       changes'["snake"][i].food # food
    ]_vars

(* a plan with one Eat, made while the frog is within the eating radius of  *)
(* the Heads of two snakes of different species, each with a free cell next *)
(* to it                                                                    *)
C26_Witness ==
    /\ pc["snake"] = "apply"
    /\ Cardinality(Eats(changes["snake"])) = 1
    /\ \E h1, h2, f \in DOMAIN cells :
          /\ IsHead(cells[h1]) /\ cells[h1].animal.species = "A"
          /\ IsHead(cells[h2]) /\ cells[h2].animal.species = "B"
          /\ cells[f].animal.kind = "Amphibian"
          /\ distance(h1, f) <= config.snake_eating_radius
          /\ distance(h2, f) <= config.snake_eating_radius
          /\ find_movement_target(h1, f) # {}
          /\ find_movement_target(h2, f) # {}

---------------------------------------------------------------------------
(* SpecStream: a 2 x 2 world with every relief of heights 0..MaxRelief,     *)
(* every cell Empty, Shallow or Deep, water_thickness 1, a flow radius of   *)
(* one or two, and the water-flow ticker alone                              *)

StreamSize == 2

MaxRelief == 2

InitStream ==
    /\ \E radius \in 1..2 :
          config = [ConfigDefault EXCEPT !.map_size = StreamSize,
                                         !.water_flow_max_radius = radius]
    /\ \E heights \in [GridPoints(StreamSize) -> 0..MaxRelief],
          waters \in [GridPoints(StreamSize) -> {"Empty", "Shallow", "Deep"}] :
          cells = [p \in GridPoints(StreamSize) |->
                      [CellEmpty(heights[p]) EXCEPT !.water = waters[p]]]
    /\ InitTasks

NextStream == WaterFlow

SpecStream == InitStream /\ [][NextStream]_vars

FlowTicks == pc["water_flow"] \in {"start", "sleep"} /\ pc'["water_flow"] = "sleep"

(* the tick when the first k sources of the scan have been visited *)
FlowAfter(k) == flow(cells, SubSeq(indexed_iter(size), 1, k), {}, 0)

Level(water) ==
    CASE water = "Empty" -> 0 [] water = "Shallow" -> 1 [] water = "Deep" -> 2

Fall(s, t) == cells[s].height - cells[t].height

(* the least fall by the levels the source and the target have *)
MinFallBetween(source_water, target_water) ==
    CASE source_water = "Shallow" /\ target_water = "Empty" -> 0
      [] source_water = "Shallow" /\ target_water = "Shallow" -> config.water_thickness
      [] source_water = "Deep" /\ target_water = "Empty" -> -config.water_thickness
      [] source_water = "Deep" /\ target_water = "Shallow" -> 0

(* the targets the source s may give a level to, in the grid cs *)
OpenTargets(cs, s) ==
    {t \in DOMAIN cs :
        /\ distance(s, t) <= config.water_flow_max_radius
        /\ cs[t].water # "Deep"
        /\ Fall(s, t) > MinFallBetween(cs[s].water, cs[t].water)}

(* no open target is closer, or as close and lower *)
FirstOpen(cs, s, t) ==
    /\ t \in OpenTargets(cs, s)
    /\ \A u \in OpenTargets(cs, s) :
          /\ distance(s, u) >= distance(s, t)
          /\ distance(s, u) = distance(s, t) => cs[u].height >= cs[t].height

(* one level goes from s to t *)
Transfer(cs, s, t) ==
    [q \in DOMAIN cs |->
        IF q = s THEN [cs[q] EXCEPT !.water = TheOne(drier(cs[q].water))]
        ELSE IF q = t THEN [cs[q] EXCEPT !.water = TheOne(wetter(cs[q].water))]
        ELSE cs[q]]

(* C27: in a water-flow tick a source s that has not received water this    *)
(* tick and can step drier transfers exactly one level to the first target  *)
(* t of its priority list (distance ascending, then target height           *)
(* ascending) that can step wetter and has fall(s,t) > min_fall, where      *)
(* min_fall is 0 for Shallow source -> Empty target, water_thickness for    *)
(* Shallow source -> Shallow target, -water_thickness for Deep source ->    *)
(* Empty target and 0 for Deep source -> Shallow target; if such a target   *)
(* exists the transfer happens in that tick and no transfer happens         *)
(* otherwise.                                                               *)
C27_FlowsToFirstOpenTarget ==
    [][FlowTicks =>
          /\ cells' = FlowAfter(Len(indexed_iter(size))).cells
          /\ \A k \in 1..Len(indexed_iter(size)) :
                LET s == indexed_iter(size)[k]
                    pre == FlowAfter(k - 1)
                    post == FlowAfter(k)
                IN  s \notin pre.received =>
                       IF pre.cells[s].water # "Empty" /\ OpenTargets(pre.cells, s) # {}
                       THEN /\ \E t \in DOMAIN cells :
                                  /\ FirstOpen(pre.cells, s, t)
                                  /\ post.cells = Transfer(pre.cells, s, t)
                                  /\ post.received = pre.received \cup {t}
                            /\ post.flowed = pre.flowed + 1
                       ELSE /\ post.cells = pre.cells
                            /\ post.flowed = pre.flowed
    ]_vars

(* after a tick with a flow radius of two: the Shallow water of the highest *)
(* corner went to the neighbour one step lower, not to the lowest cell,     *)
(* which is two steps away                                                  *)
C27_Witness ==
    /\ config.water_flow_max_radius = 2
    /\ pc["water_flow"] = "sleep"
    /\ version_id = 1
    /\ cells[Pt(0, 0)].height = 2 /\ cells[Pt(0, 0)].water = "Empty"
    /\ cells[Pt(1, 0)].height = 1 /\ cells[Pt(1, 0)].water = "Shallow"
    /\ cells[Pt(0, 1)].height = 2 /\ cells[Pt(0, 1)].water = "Empty"
    /\ cells[Pt(1, 1)].height = 0 /\ cells[Pt(1, 1)].water = "Empty"

(* the cells that hold less water in the grid after than in the grid before *)
Donors(before, after) ==
    {q \in DOMAIN before : Level(after[q].water) < Level(before[q].water)}

(* C28: within one water-flow tick a cell that has received water in that   *)
(* tick is never a donor later in the same tick, and every cell donates at  *)
(* most one level per tick, so no unit of water travels through more than   *)
(* one transfer in a single tick.                                           *)
C28_NoChainedFlow ==
    [][FlowTicks =>
          /\ cells' = FlowAfter(Len(indexed_iter(size))).cells
          /\ NoDuplicates(indexed_iter(size))
          /\ \A k \in 1..Len(indexed_iter(size)) :
                LET s == indexed_iter(size)[k]
                    pre == FlowAfter(k - 1)
                    post == FlowAfter(k)
                IN  /\ Donors(pre.cells, post.cells) \subseteq {s} \ pre.received
                    /\ Level(post.cells[s].water) >= Level(pre.cells[s].water) - 1
                    /\ pre.received \subseteq post.received
                    /\ \A q \in DOMAIN cells :
                          Level(post.cells[q].water) > Level(pre.cells[q].water)
                              => q \in post.received
    ]_vars

(* after a tick down a slope: the water of the top went one cell down and   *)
(* stopped there, above a lower dry cell next to it                         *)
C28_Witness ==
    /\ pc["water_flow"] = "sleep"
    /\ version_id = 1
    /\ config.water_flow_max_radius = 1
    /\ cells[Pt(0, 0)].height = 2 /\ cells[Pt(0, 0)].water = "Empty"
    /\ cells[Pt(1, 0)].height = 1 /\ cells[Pt(1, 0)].water = "Shallow"
    /\ cells[Pt(1, 1)].height = 0 /\ cells[Pt(1, 1)].water = "Empty"
    /\ cells[Pt(0, 1)].height = 2 /\ cells[Pt(0, 1)].water = "Empty"

---------------------------------------------------------------------------
(* SpecCycle: a 2 x 2 world with every cell Empty, Shallow or Deep, up to   *)
(* MaxAtmosphere units of water in the atmosphere, a rain radius of 0 to 2, *)
(* and the water-cycle ticker alone: ticks of rain and of evaporation       *)

CycleSize == 2

MaxAtmosphere == 2

InitCycle ==
    /\ \E radius \in 0..CycleSize, atmosphere \in 0..MaxAtmosphere :
          config = [ConfigDefault EXCEPT !.map_size = CycleSize,
                                         !.water_max_rain_radius = radius,
                                         !.water_in_atmosphere = atmosphere]
    /\ \E waters \in [GridPoints(CycleSize) -> {"Empty", "Shallow", "Deep"}] :
          cells = [p \in GridPoints(CycleSize) |-> [CellEmpty(0) EXCEPT !.water = waters[p]]]
    /\ InitTasks

NextCycle == Rain \/ Evaporate

SpecCycle == InitCycle /\ [][NextCycle]_vars

RECURSIVE WaterOn(_, _)
WaterOn(cs, S) ==
    IF S = {} THEN 0
    ELSE LET q == CHOOSE q \in S : TRUE
         IN  Level(cs[q].water) + WaterOn(cs, S \ {q})

(* the cells that hold more water in the grid after than in the grid before *)
Wetted(before, after) ==
    {q \in DOMAIN before : Level(after[q].water) > Level(before[q].water)}

(* C29: across every rain sub-tick and every evaporation sub-tick, the      *)
(* atmospheric reservoir A plus the total water on the grid (Empty = 0,     *)
(* Shallow = 1, Deep = 2 per cell) is unchanged: each cell wetted by rain   *)
(* lowers A by exactly one and each cell dried by evaporation raises A by   *)
(* exactly one.                                                             *)
C29_WaterConserved ==
    [][/\ atmosphere_water' + WaterOn(cells', DOMAIN cells)
            = atmosphere_water + WaterOn(cells, DOMAIN cells)
       /\ pc'["water_cycle"] = "sleep" =>
             /\ Donors(cells, cells') = {}
             /\ \A q \in Wetted(cells, cells') :
                   Level(cells'[q].water) = Level(cells[q].water) + 1
             /\ atmosphere_water' = atmosphere_water - Cardinality(Wetted(cells, cells'))
       /\ pc'["water_cycle"] = "evaporate_sleep" =>
             /\ Wetted(cells, cells') = {}
             /\ \A q \in Donors(cells, cells') :
                   Level(cells'[q].water) = Level(cells[q].water) - 1
             /\ atmosphere_water' = atmosphere_water + Cardinality(Donors(cells, cells'))
    ]_vars

(* after a tick of rain that wetted two cells and a tick of evaporation     *)
(* that dried three: the atmosphere holds more than it started with         *)
C29_Witness ==
    /\ pc["water_cycle"] = "evaporate_sleep"
    /\ version_id = 2
    /\ config.water_in_atmosphere = 2
    /\ atmosphere_water = 3
    /\ WaterOn(cells, DOMAIN cells) = 1

---------------------------------------------------------------------------
(* Starvation at the commit of the amphibian ticker, checked on SpecAnimal *)

(* C30: the simple-animal ticker turns an animal into Dead only if, at      *)
(* commit time, that animal is in SearchFood and its now - last_feeding     *)
(* exceeds starvation_delay; a starving animal in SearchMatingGround or     *)
(* SearchPartner is instead set back to SearchFood with last_feeding = now  *)
(* and destination cleared.                                                 *)
C30_DiesOnlyIfStarvingAtCommit ==
    [][(wlock = "amphibian" /\ changes[wlock] # <<>>) =>
        LET c == Applying.change
            old == cells[Applying.point].animal
            new == cells'[Applying.point].animal
        IN  /\ (old.kind = "Amphibian" /\ new = DeadAnimal) =>
                  /\ old.state = "SearchFood"
                  /\ Elapsed(now, old.last_feeding) > config.amphibian_starvation_delay
            /\ (/\ c.kind = "Starve"
                /\ old.kind = "Amphibian"
                /\ old.state \in {"SearchMatingGround", "SearchPartner"}) =>
                  new = [old EXCEPT !.state = "SearchFood",
                                    !.last_feeding = tnow["amphibian"],
                                    !.destination = None]
    ]_vars

---------------------------------------------------------------------------
(* The walk of the simple animals, checked on SpecAnimal *)

(* the walk candidates of each species, target and facing: those of        *)
(* Amphibian::walk_candidates, and for the insect a turn right or left,    *)
(* with or without the turn over that InsectSystem::determine_next_walk    *)
(* lists as well                                                           *)
CandidatesOf(t, point, direction, with_turn_over) ==
    IF t = "insect"
    THEN {WalkCandidateNew(point, turn_right(direction), 1),
          WalkCandidateNew(point, turn_left(direction), 1)}
         \cup (IF with_turn_over
               THEN {WalkCandidateNew(point, turn_over(direction), 1)} ELSE {})
    ELSE {WalkCandidateNew(point, turn_right(direction), 1),
          WalkCandidateNew(point, turn_left(direction), 1),
          WalkCandidateNew(point, direction, 1),
          WalkCandidateNew(point, direction, 2)}

FreeAtPlan(c) == c.target \in DOMAIN cells /\ cells[c.target].animal = EmptyAnimal

AnimalPlans(t) == pc[t] \in {"start", "sleep"} /\ pc'[t] = "apply"

(* the candidate of a planned MoveTo: the insect's change names the target  *)
(* only, the facing it gets is the step it makes                            *)
MoveCandidate(t, point, change) ==
    IF t = "amphibian" THEN change.candidate
    ELSE [target |-> change.target, new_direction |-> PSub(change.target, point)]

(* every planned MoveTo goes to a free candidate closest to the             *)
(* destination, and a committed one moves the animal there, facing the way  *)
(* of the candidate, its destination cleared if it is reached               *)
WalksToClosest(with_turn_over) ==
    \A t \in AnimalTickers :
        /\ AnimalPlans(t) =>
              \A i \in 1..Len(changes'[t]) :
                  changes'[t][i].change.kind = "MoveTo" =>
                      LET point == changes'[t][i].point
                          a == cells[point].animal
                          c == MoveCandidate(t, point, changes'[t][i].change)
                          free == {o \in CandidatesOf(t, point, a.direction,
                                                      with_turn_over) :
                                      FreeAtPlan(o)}
                      IN  /\ c \in free
                          /\ \A o \in free : distance(c.target, a.destination)
                                                <= distance(o.target, a.destination)
        /\ (/\ wlock = t
            /\ changes[t] # <<>>
            /\ Applying.change.kind = "MoveTo"
            /\ cells' # cells) =>
              LET point == Applying.point
                  c == MoveCandidate(t, point, Applying.change)
                  old == cells[point].animal
                  new == cells'[c.target].animal
              IN  /\ new.kind = old.kind
                  /\ new.state = old.state
                  /\ cells'[point].animal = EmptyAnimal
                  /\ new.direction = c.new_direction
                  /\ new.destination
                        = (IF old.destination = c.target THEN None ELSE old.destination)

(* the statement as first made: the insect's candidates are a turn right    *)
(* and a turn left                                                          *)
C31_InsectTurnsRightOrLeft == [][WalksToClosest(FALSE)]_vars

(* C31: a planned MoveTo target is always one of the species' walk          *)
(* candidates (insect: turn right, turn left or turn over by one;           *)
(* amphibian: turn right 1, turn left 1, forward 1, forward 2) that is in   *)
(* bounds and Animal-Empty at plan time and has minimal taxicab distance to *)
(* the destination among such candidates; on commit the animal occupies the *)
(* target, the origin cell is Animal-Empty, facing equals the candidate's   *)
(* direction, and destination is cleared if and only if the target equals   *)
(* the destination.                                                         *)
C31_WalksToClosestCandidate == [][WalksToClosest(TRUE)]_vars

(* an insect has planned a step backwards, and a frog somewhere has walked  *)
C31_Witness ==
    /\ pc["insect"] = "apply"
    /\ \E i \in 1..Len(changes["insect"]) :
          LET point == changes["insect"][i].point
              change == changes["insect"][i].change
          IN  /\ change.kind = "MoveTo"
              /\ IsInsect(cells[point])
              /\ change.target = PAdd(point, turn_over(cells[point].animal.direction))
    /\ \E q \in DOMAIN cells :
          /\ cells[q].animal.kind = "Amphibian"
          /\ cells[q].animal.direction # PointX

---------------------------------------------------------------------------
(* the amphibian ticker leaves its plan step *)
AmphibianPlanned ==
    pc["amphibian"] \in {"start", "sleep"} /\ pc'["amphibian"] # pc["amphibian"]

(* the frogs that retarget with no goal inside the destination disk *)
Retargeting ==
    {p \in DOMAIN cells :
        /\ cells[p].animal.kind = "Amphibian"
        /\ cells[p].animal.state \in {"SearchFood", "SearchMatingGround"}
        /\ determine_starvation(now, cells[p].animal) = {}
        /\ determine_reached_goal(p, cells[p].animal) = {}
        /\ determine_next_walk(p, cells[p].animal) = {}
        /\ \A q \in SeqToSet(circle(p, config.amphibian_destination_radius, size)) :
              IF cells[p].animal.state = "SearchFood"
              THEN ~check_food_goal(q) ELSE ~check_mating_ground_goal(q)}

(* C32: for every in-bounds position, every grid side N and every           *)
(* destination_radius, a Retarget in state SearchFood or SearchMatingGround *)
(* with no goal inside the destination disk always yields a destination,    *)
(* and that destination is in bounds at taxicab distance exactly            *)
(* destination_radius from the animal; the ticker never fails or panics at  *)
(* this step.                                                               *)
C32_RetargetAlwaysYieldsFarPoint ==
    [][AmphibianPlanned =>
          \A p \in Retargeting :
              /\ pc'["amphibian"] = "apply"
              /\ \E i \in 1..Len(changes'["amphibian"]) :
                    LET planned == changes'["amphibian"][i]
                    IN  /\ planned.point = p
                        /\ planned.change.kind = "SetDestination"
                        /\ planned.change.destination \in DOMAIN cells
                        /\ distance(p, planned.change.destination)
                              = config.amphibian_destination_radius]_vars

---------------------------------------------------------------------------
(* SpecFrame: a 2x2 grid whose cells hold any of three fillings, painted by *)
(* requests                                                                 *)

FrameSize == 2

FrameSamples ==
    {CellEmpty(0),
     [animal |-> SnakeNew("A"), water |-> "Deep", grass |-> "High", height |-> 1],
     [animal |-> DeadAnimal, water |-> "Shallow", grass |-> "Dry", height |-> 2]}

InitFrame ==
    /\ config = [ConfigDefault EXCEPT !.map_size = FrameSize]
    /\ cells \in [GridPoints(FrameSize) -> FrameSamples]
    /\ InitTasks

NextFrame == PaintAny

SpecFrame == InitFrame /\ [][NextFrame]_vars

(* C33: a successful paint changes only the painted cell and only the       *)
(* layers of the painted color: Empty sets animal, water and grass to       *)
(* Empty; ShallowWater changes only the water layer; LowGrass changes only  *)
(* the grass layer; an animal color changes only the animal layer. Every    *)
(* other cell and every other layer is unchanged, and the version advances: *)
(* notify_update gives the map the reading of the clock as its version.     *)
C33_PaintFrame ==
    [][PaintedNow =>
        LET p == paint_request'.point
            c == ALL_COLORS[paint_request'.color_index + 1]
            old == cells[p]
            new == cells'[p]
        IN  /\ p \in DOMAIN cells
            /\ DOMAIN cells' = DOMAIN cells
            /\ \A q \in DOMAIN cells \ {p} : cells'[q] = cells[q]
            /\ new.height = old.height
            /\ c = "Empty" =>
                  new.animal = EmptyAnimal /\ new.water = "Empty" /\ new.grass = "Empty"
            /\ c = "ShallowWater" => new = [old EXCEPT !.water = "Shallow"]
            /\ c = "LowGrass" => new = [old EXCEPT !.grass = "Low"]
            /\ c \in AnimalColors =>
                  /\ new.water = old.water
                  /\ new.grass = old.grass
                  /\ color(new) = c
            /\ notifies' # notifies
            /\ version_id' = MapNow
            /\ version_id' > version_id
    ]_vars

(* water has been painted on a cell that holds a snake part and high grass, *)
(* next to cells that hold dead matter                                      *)
C33_Witness ==
    /\ paint_status = OkStatus
    /\ paint_request # None
    /\ paint_request.point = Pt(0, 1)
    /\ paint_request.color_index = as_index("ShallowWater")
    /\ cells[Pt(0, 1)]
          = [animal |-> SnakeNew("A"), water |-> "Shallow", grass |-> "High",
             height |-> 1]
    /\ cells[Pt(1, 1)].animal = DeadAnimal
    /\ cells[Pt(0, 0)].animal = DeadAnimal

---------------------------------------------------------------------------
(* SpecCommit: a 2x2 world with frogs and insects, or a snake next to a     *)
(* frog it can reach, the three animal tickers and a painter                *)

CommitPalette == {"Empty", "Ant", "Frog", "Snake1"}

InitCommit ==
    /\ config = [ConfigDefault EXCEPT !.map_size = 2, !.snake_eating_radius = 2]
    /\ \/ \E first \in {AmphibianIn("SearchFood"), AmphibianIn("SearchPartner")},
             second \in {EmptyAnimal, InsectDefault, AmphibianIn("SearchPartner"),
                         DeadAnimal,
                         [InsectDefault EXCEPT !.state = "SearchPartner"]},
             third \in {EmptyAnimal,
                        [InsectDefault EXCEPT !.state = "SearchPartner"],
                        [InsectDefault EXCEPT !.destination = Pt(0, 1)]} :
             cells = [p \in GridPoints(2) |->
                        IF p = Pt(0, 0) THEN [CellEmpty(0) EXCEPT !.animal = first]
                        ELSE IF p = Pt(1, 0) THEN [CellEmpty(0) EXCEPT !.animal = second]
                        ELSE IF p = Pt(1, 1) THEN [CellEmpty(0) EXCEPT !.animal = third]
                        ELSE CellEmpty(0)]
       \/ cells = ShortSnake
    /\ InitTasks

PaintCommit ==
    \E p \in GridPoints(size), c \in CommitPalette :
        set_cell_color(p.x, p.y, as_index(c))

NextCommit ==
    \/ PaintCommit
    \/ AmphibianPlan
    \/ CommitAcquire("amphibian")
    \/ AmphibianApply
    \/ CommitEnd("amphibian")
    \/ InsectPlan
    \/ CommitAcquire("insect")
    \/ InsectApply
    \/ CommitEnd("insect")
    \/ SnakePlan
    \/ CommitAcquire("snake")
    \/ SnakeApply
    \/ CommitEnd("snake")

SpecCommit == InitCommit /\ [][NextCommit]_vars

(* the points a planned change hands to two_cells_mut or three_cells_mut *)
CellsMutArgs(t, planned) ==
    IF t = "snake"
    THEN IF planned.kind = "Eat"
         THEN <<planned.head, planned.new_head, planned.food>> ELSE <<>>
    ELSE LET c == planned.change
         IN  CASE c.kind = "Eat" -> <<planned.point, c.target>>
               [] c.kind = "Mate" -> <<planned.point, c.partner, c.new_born>>
               [] c.kind = "MoveTo" -> <<planned.point, MoveTarget(t, c)>>
               [] OTHER -> <<>>

(* C34: two_cells_mut and three_cells_mut panic if and only if two of their *)
(* arguments coincide (or one is out of bounds), and no change planned by   *)
(* the simple-animal or snake tickers (Eat, Mate, MoveTo, snake Eat) ever   *)
(* reaches them with coinciding or out-of-bounds points, whatever other     *)
(* tickers or paints commit between plan and commit; so no ticker panics at *)
(* commit.                                                                  *)
C34_NoPanicAtCommit ==
    [][/\ wlock' # "poisoned"
       /\ \A t \in {"amphibian", "insect", "snake"} :
             /\ \A i \in 1..Len(changes'[t]) :
                   ~cells_mut_panics(cells', CellsMutArgs(t, changes'[t][i]))
             /\ (pc[t] = "applying" /\ changes[t] # <<>>) =>
                   /\ pc'[t] = "applying"
                   /\ changes'[t] = Tail(changes[t])]_vars

(* the snake ticker is about to apply an Eat whose prey was painted over    *)
(* after the plan                                                           *)
C34_Witness ==
    /\ pc["snake"] = "applying"
    /\ changes["snake"] # <<>>
    /\ Head(changes["snake"]).kind = "Eat"
    /\ paints = 1
    /\ paint_status = OkStatus
    /\ paint_request.point = Head(changes["snake"]).food
    /\ ~AmphibianGet(cells[Head(changes["snake"]).food])

---------------------------------------------------------------------------
(* the reader's wait on the change signal ends in this step *)
WaitEnds(r) == pc[r] = "waiting" /\ pc'[r] = "reread"

(* a writer has called notify_update since the reader found its             *)
(* last_version_id equal to the version of the map                          *)
CommittedSinceCheck(r) == request[r] # {version_id}

(* C35: no wake-up is lost by a long-poll reader: if a writer commits and   *)
(* calls notify_update at any moment after the reader has compared          *)
(* last_version_id with the current version and found them equal, the       *)
(* window between releasing the read lock and starting to wait on the       *)
(* change signal included, then the reader's wait ends because of that      *)
(* notification and not by the long_pooling_seconds timeout.                *)
C35_NoLostWakeUp ==
    [][\A r \in Readers :
          (WaitEnds(r) /\ CommittedSinceCheck(r)) => r \in notified]_vars

---------------------------------------------------------------------------
(* SpecLock: the world with the snake and amphibian tickers, a painter and  *)
(* a long-poll reader, under fair scheduling: a task inside a guarded       *)
(* section runs on to its end, and a task that asks for the lock gets it if *)
(* the lock is free again and again                                         *)

NextLock ==
    \/ PaintWorld
    \/ AmphibianPlan
    \/ CommitAcquire("amphibian")
    \/ AmphibianApply
    \/ CommitEnd("amphibian")
    \/ SnakePlan
    \/ CommitAcquire("snake")
    \/ SnakeApply
    \/ CommitEnd("snake")
    \/ ReaderNext

FairLock ==
    /\ SF_vars(CommitAcquire("amphibian"))
    /\ WF_vars(AmphibianApply)
    /\ WF_vars(CommitEnd("amphibian"))
    /\ SF_vars(CommitAcquire("snake"))
    /\ WF_vars(SnakeApply)
    /\ WF_vars(CommitEnd("snake"))
    /\ \A r \in Readers :
          /\ SF_vars(GetMapRead(r))
          /\ WF_vars(GetMapCheck(r))
          /\ SF_vars(GetMapReread(r))
          /\ WF_vars(GetMapRespond(r))

SpecLock == Init /\ [][NextLock]_vars /\ FairLock

LockTickers == {"amphibian", "snake"}

(* the task is at a call of read() or write() *)
RequestsRead(task) ==
    IF task \in Readers THEN pc[task] \in {"read", "reread"}
    ELSE pc[task] \in {"start", "sleep"}

RequestsWrite(task) == task \in Tickers /\ pc[task] = "apply"

(* the step that takes the holder of a guard on to the release of it can be *)
(* taken whatever the other tasks do                                        *)
CanRunOn(task) ==
    CASE task = "amphibian" -> ENABLED (AmphibianApply \/ CommitEnd("amphibian"))
      [] task = "snake" -> ENABLED (SnakeApply \/ CommitEnd("snake"))
      [] OTHER -> ENABLED (GetMapCheck(task) \/ GetMapRespond(task))

(* a ticker's read() returns as soon as no writer is inside, and its plan   *)
(* under the read guard always comes to an end                              *)
CanPlan(t) ==
    /\ CanRead
    /\ IF t = "amphibian" THEN determine_changes(now, indexed_iter(size)) # {}
       ELSE Snake_determine_changes(SnakeSpeciesIn(cells), UneatenPreys, now) # {}

LockSafety ==
    /\ wlock # "poisoned"
    /\ \A task \in LockTickers \cup Readers :
          /\ (RequestsRead(task) \/ RequestsWrite(task)) => ~HoldsLock(task)
          /\ HoldsLock(task) => CanRunOn(task)
    /\ \A t \in LockTickers : (RequestsRead(t) /\ CanRead) => CanPlan(t)

(* C36: the program never deadlocks on the world lock: no task requests the *)
(* non-reentrant lock while it holds a guard, every guard is released       *)
(* without waiting for another task, and every lock request is eventually   *)
(* granted: a reader's, a ticker's read as soon as no writer is inside, a   *)
(* ticker's write as long as the clock of the model can still give the      *)
(* commit a version.                                                        *)
C36_NoDeadlock ==
    /\ []LockSafety
    /\ \A r \in Readers : RequestsRead(r) ~> r \in rlock
    /\ \A task \in LockTickers \cup Readers : HoldsLock(task) ~> ~HoldsLock(task)
    /\ \A t \in LockTickers :
          RequestsWrite(t) ~> (wlock = t \/ wall = MaxWall)

(* the snake ticker holds the write guard while the reader and the          *)
(* amphibian ticker ask for the lock                                        *)
C36_Witness ==
    /\ wlock = "snake"
    /\ pc["reader"] = "reread"
    /\ pc["amphibian"] = "apply"

---------------------------------------------------------------------------
(* SpecLevel: the world of SpecStream with a water_thickness of 0, 1 or 2   *)

MaxThickness == 2

InitLevel ==
    /\ \E radius \in 1..2, thickness \in 0..MaxThickness :
          config = [ConfigDefault EXCEPT !.map_size = StreamSize,
                                         !.water_flow_max_radius = radius,
                                         !.water_thickness = thickness]
    /\ \E heights \in [GridPoints(StreamSize) -> 0..MaxRelief],
          waters \in [GridPoints(StreamSize) -> {"Empty", "Shallow", "Deep"}] :
          cells = [p \in GridPoints(StreamSize) |->
                      [CellEmpty(heights[p]) EXCEPT !.water = waters[p]]]
    /\ InitTasks

NextLevel == WaterFlow

SpecLevel == InitLevel /\ [][NextLevel]_vars

(* the source is in its own list of targets, at distance 0 with fall 0 *)
OwnTarget(source) ==
    \E i \in 1..Len(determine_water_flows(source)) :
        LET target == determine_water_flows(source)[i]
        IN  target.point = source /\ target.radius = 0 /\ target.fall = 0

(* from the grid before to the grid after nothing has moved, or one level   *)
(* has gone from one cell to another                                        *)
OneTransferAtMost(before, after) ==
    \/ after = before
    \/ \E s, t \in DOMAIN before :
          /\ s # t
          /\ drier(before[s].water) # {}
          /\ wetter(before[t].water) # {}
          /\ after = Transfer(before, s, t)

(* C37: a water-flow tick never changes the total amount of water on the    *)
(* grid: every transfer lowers one cell by one level and raises a different *)
(* cell by one level; a cell never transfers to itself although it appears  *)
(* in its own target list at distance 0 with fall 0 (it does whenever       *)
(* water_thickness > 0), for every water_thickness >= 0.                    *)
C37_FlowConservesWater ==
    [][FlowTicks =>
          /\ cells' = FlowAfter(Len(indexed_iter(size))).cells
          /\ WaterOn(cells', DOMAIN cells) = WaterOn(cells, DOMAIN cells)
          /\ \A k \in 1..Len(indexed_iter(size)) :
                OneTransferAtMost(FlowAfter(k - 1).cells, FlowAfter(k).cells)
          /\ \A source \in DOMAIN cells :
                OwnTarget(source) <=> config.water_thickness > 0]_vars

(* with a water_thickness of 2 a tick has moved water and left every cell  *)
(* shallow, the low ones and the high ones, each its own first target       *)
C37_Witness ==
    /\ config.water_thickness = MaxThickness
    /\ pc["water_flow"] = "sleep"
    /\ notifies = 1
    /\ cells[Pt(0, 0)].water = "Shallow" /\ cells[Pt(0, 0)].height = 0
    /\ cells[Pt(1, 0)].water = "Shallow" /\ cells[Pt(1, 0)].height = 2
    /\ cells[Pt(0, 1)].water = "Shallow" /\ cells[Pt(0, 1)].height = 0
    /\ cells[Pt(1, 1)].water = "Shallow" /\ cells[Pt(1, 1)].height = 2

---------------------------------------------------------------------------
(* The rain and the atmosphere, checked on SpecCycle *)

RainTicks == pc'["water_cycle"] = "sleep" /\ notifies' # notifies

(* the cells of the map within the rain radius of a centre *)
RainDisk(center) ==
    {q \in DOMAIN cells : distance(center, q) <= config.water_max_rain_radius}

(* C38: the atmospheric reservoir A is never negative when it starts        *)
(* non-negative and the per-tick rain ratio r is in [0, 1]: a rain sub-tick *)
(* wets at most ceil(A * r) <= A cells, wets only cells within              *)
(* water_max_rain_radius of the chosen centre, wets each cell at most once  *)
(* per sub-tick, and stops when the quota reaches 0.                        *)
C38_AtmosphereNeverNegative ==
    /\ [](atmosphere_water >= 0)
    /\ [][RainTicks =>
            LET wetted == Wetted(cells, cells')
            IN  /\ Cardinality(wetted) <= atmosphere_water
                /\ atmosphere_water' = atmosphere_water - Cardinality(wetted)
                /\ Donors(cells, cells') = {}
                /\ \A q \in wetted :
                      Level(cells'[q].water) = Level(cells[q].water) + 1
                /\ \E center \in DOMAIN cells, quota \in RemainingRain(atmosphere_water) :
                      /\ wetted \subseteq RainDisk(center)
                      /\ Cardinality(wetted)
                            = Min2(quota, Cardinality({q \in RainDisk(center) :
                                                        cells[q].water # "Deep"}))
       ]_vars

(* one tick of rain with a radius of one has wetted two cells and used up   *)
(* an atmosphere of two                                                     *)
C38_Witness ==
    /\ pc["water_cycle"] = "sleep"
    /\ version_id = 1
    /\ config.water_in_atmosphere = MaxAtmosphere
    /\ config.water_max_rain_radius = 1
    /\ atmosphere_water = 0
    /\ cells[Pt(0, 0)].water = "Deep"
    /\ cells[Pt(1, 0)].water = "Shallow"
    /\ cells[Pt(0, 1)].water = "Shallow"
    /\ cells[Pt(1, 1)].water = "Empty"

---------------------------------------------------------------------------
(* SpecRevalidate: a 2x2 world with spare parts of two species, or a snake  *)
(* of species A (three segments, or two and a frog in reach), the snake     *)
(* ticker and a painter                                                     *)

TwoSpares ==
    [p \in GridPoints(2) |->
        [CellEmpty(0) EXCEPT !.animal = SnakeNew(IF p.y = 0 THEN "A" ELSE "B")]]

InitRevalidate ==
    /\ config = [ConfigDefault EXCEPT !.map_size = 2, !.snake_eating_radius = 2]
    /\ cells \in {FormedSnake, ShortSnake, SpareSnake, TwoSpares}
    /\ InitTasks

NextRevalidate ==
    \/ InstantTick
    \/ PaintSnake
    \/ SnakePlan
    \/ CommitAcquire("snake")
    \/ SnakeApply
    \/ CommitEnd("snake")

SpecRevalidate == InitRevalidate /\ [][NextRevalidate]_vars

(* the cells a change writes when it is applied *)
WriteSet(change) ==
    CASE change.kind = "NewSnake" -> SeqToSet(change.points)
      [] change.kind = "Move" -> SeqToSet(change.snake) \cup {change.target}
      [] change.kind = "Eat" -> {change.head, change.new_head, change.food}
      [] OTHER -> {}

(* every check of the re-validation passes on the cells as they are *)
StillValid(change) ==
    CASE change.kind = "NewSnake" ->
            \A i \in 1..Len(change.points) :
                /\ IsSnake(cells[change.points[i]])
                /\ cells[change.points[i]].animal.segment = None
                /\ cells[change.points[i]].animal.species
                      = cells[change.points[1]].animal.species
      [] change.kind = "Move" -> MoveStillValid(change.snake, change.target)
      [] change.kind = "Eat" -> EatStillValid(change.head, change.new_head, change.food)

(* every write of the change is found in the next state *)
WhollyApplied(change) ==
    CASE change.kind = "NewSnake" ->
            \A i \in 1..Len(change.points) :
                /\ IsSnake(cells'[change.points[i]])
                /\ cells'[change.points[i]].animal.segment # None
                /\ cells'[change.points[i]].animal.segment.kind
                      = (IF i = 1 THEN "Head" ELSE "Body")
                /\ next_segment(cells'[change.points[i]])
                      = (IF i < Len(change.points) THEN change.points[i + 1] ELSE None)
      [] change.kind = "Move" ->
            /\ IsHead(cells'[change.target])
            /\ next_segment(cells'[change.target]) = change.snake[1]
            /\ is_body(cells'[change.snake[1]])
            /\ cells'[change.snake[Len(change.snake)]].animal = EmptyAnimal
            /\ next_segment(cells'[change.snake[Len(change.snake) - 1]]) = None
      [] change.kind = "Eat" ->
            /\ IsHead(cells'[change.new_head])
            /\ next_segment(cells'[change.new_head]) = change.head
            /\ is_body(cells'[change.head])
            /\ cells'[change.food].animal = EmptyAnimal

(* C39: each snake change is applied all-or-nothing at commit: if any part  *)
(* of the re-validation of a NewSnake, Move or Eat fails, that change       *)
(* modifies no cell, and the remaining changes are still processed.         *)
C39_AllOrNothing ==
    [][(/\ pc["snake"] = "applying"
        /\ changes["snake"] # <<>>
        /\ Head(changes["snake"]).kind \in {"NewSnake", "Move", "Eat"}
        /\ <<cells, changes, pc, wlock>>' # <<cells, changes, pc, wlock>>) =>
          LET change == Head(changes["snake"])
          IN  /\ IF StillValid(change)
                 THEN WhollyApplied(change)
                 ELSE cells' = cells
              /\ \A q \in DOMAIN cells \ WriteSet(change) : cells'[q] = cells[q]
              /\ changes'["snake"] = Tail(changes["snake"])
              /\ pc'["snake"] = "applying"
              /\ wlock' = wlock]_vars

(* the NewSnake of species A was skipped, one of its parts painted over     *)
(* after the plan, and the NewSnake of species B in the same batch was      *)
(* applied                                                                  *)
C39_Witness ==
    /\ pc["snake"] = "applying"
    /\ changes["snake"] = <<>>
    /\ paints = 1
    /\ IsHead(cells[Pt(0, 1)]) \/ IsHead(cells[Pt(1, 1)])
    /\ cells[Pt(0, 1)].animal.species = "B"
    /\ \E p \in {Pt(0, 0), Pt(1, 0)} :
          /\ cells[p].animal.kind = "Snake"
          /\ cells[p].animal.species = "A"
          /\ cells[p].animal.segment = None
    /\ \E p \in {Pt(0, 0), Pt(1, 0)} : cells[p].animal.kind # "Snake"

---------------------------------------------------------------------------
(* The plan of a Move against its re-validation, checked on SpecSnake *)

(* C40: with no other writer between a snake tick's plan and its commit,    *)
(* every Move planned for an extracted snake whose target is still          *)
(* Animal-Empty passes re-validation and is committed, for every snake that *)
(* extraction accepts, one whose chain was cut short because the next       *)
(* linked cell was missing or max_size was reached included: the Move is    *)
(* valid on the grid it was planned on, and a valid Move changes the grid.  *)
C40_PlannedMoveCommits ==
    [][/\ SnakePlans =>
             \A i \in 1..Len(changes'["snake"]) :
                 changes'["snake"][i].kind = "Move" =>
                     MoveStillValid(changes'["snake"][i].snake,
                                    changes'["snake"][i].target)
       /\ (SnakeAppliesA("Move")
           /\ MoveStillValid(Head(changes["snake"]).snake,
                             Head(changes["snake"]).target)) =>
             cells' # cells
    ]_vars

=============================================================================
